---- MODULE Spec2Model ----
(***************************************************************************)
(* A model of the forms and filters of tornado-rest-framework:             *)
(*   - BaseForm (forms/forms.py): lazy cleaning, the clean pipeline,       *)
(*     add_error (SpecForm), and two forms of one type cleaned side by     *)
(*     side (SpecPair);                                                    *)
(*   - DeclarativeFieldsMetaclass (forms/forms.py): field collection       *)
(*     (SpecRegistry);                                                     *)
(*   - UniqueValidator and UniqueTogetherValidator (forms/validators.py)   *)
(*     (SpecUnique, SpecFailing, SpecTogether);                            *)
(*   - SearchFilter and OrderingFilter (filters/backends.py) (SpecSearch,  *)
(*     SpecOrdering).                                                      *)
(* Each specification moves the variables of its part; the variables of    *)
(* the other parts stay at their initial values.                           *)
(***************************************************************************)
EXTENDS Integers, Sequences, FiniteSets, TLC

VARIABLES
    form,        \* the FormInstance object (BaseForm's attributes)
    queryset,    \* the rows of the table behind the validators' queryset
    ret,         \* the last operation on the form and how it returned
    nadd,        \* number of add_error calls made by the caller so far
    classes,     \* the form types defined so far (DeclarativeFieldsMetaclass)
    counter,     \* Field.creation_counter: the next value to hand out
    uv,          \* the validator object called on its own
    uvret,       \* the last operation on that validator and how it returned
    request_handler,  \* the view's configuration and the request's arguments
    instances,   \* two forms of one type that are cleaned side by side
    heap,        \* the Field objects: those of the type and the copies
    meta_validator    \* the validator objects of the Meta.validators of the type

vars == <<form, queryset, ret, nadd, classes, counter, uv, uvret,
          request_handler, instances, heap, meta_validator>>
filterVars == <<request_handler>>
pairVars == <<instances, heap, meta_validator>>
formVars == <<form, queryset, ret, nadd>>
regVars == <<classes, counter>>
uvVars == <<uv, uvret>>

(***************************************************************************)
(* Bounds of the model.                                                    *)
(***************************************************************************)
\* operations stop once full_clean has been entered this many times
MaxCalls == 3
\* add_error calls the caller makes on one form
MaxAddError == 1
\* form types defined (besides Form itself)
MaxClasses == 4
\* Field objects declared by all the types together
MaxDecls == 3
\* attributes set to None by all the types together
MaxShadows == 1
\* primary keys of the rows of a table
MaxPk == 2

(***************************************************************************)
(* Values.  Python's None is the string "None"; a dict is a function whose *)
(* DOMAIN is its key set; an attribute that may be None is a record        *)
(* [none, m].                                                              *)
(***************************************************************************)
NoneV == "None"
EmptyMap == [k \in {} |-> NoneV]
NoneMap == [none |-> TRUE, m |-> EmptyMap]
SomeMap(m) == [none |-> FALSE, m |-> m]
Range(s) == {s[i] : i \in 1..Len(s)}
MapDel(m, k) == [x \in (DOMAIN m) \ {k} |-> m[x]]
MapPut(m, k, v) == [x \in (DOMAIN m) \cup {k} |-> IF x = k THEN v ELSE m[x]]

\* settings.NON_FIELD_ERRORS
NON_FIELD_ERRORS == "__all__"

(***************************************************************************)
(* The form type under study: class F(Form) with fields a, b (in this      *)
(* order), a clean_b hook, and two UniqueTogetherValidators in             *)
(* Meta.validators.                                                        *)
(***************************************************************************)
base_fields == <<"a", "b">>
FieldNames == Range(base_fields)
\* Field.required of each field
required == [n \in FieldNames |-> n = "a"]
\* the names n for which the type defines clean_<n>
HookFields == {"b"}
\* a name that is no field of the type
UnknownName == "zz"
\* the constrained fields of each validator of Meta.validators
ValidatorFields == << <<"a", "b">>, <<"b">> >>
ValidatorNames == <<"v1", "v2">>

(***************************************************************************)
(* ValidationError: error_list (is_dict = FALSE, one item whose key is     *)
(* unused) or error_dict (is_dict = TRUE, items in insertion order).  An   *)
(* error entry is its code.                                                *)
(***************************************************************************)
VEList(codes) == [is_dict |-> FALSE, items |-> << <<NoneV, codes>> >>]
VEDict(items) == [is_dict |-> TRUE, items |-> items]
NoErr == VEList(<<>>)

\* what an operation hands back: the object, the exception raised ("" if none)
\* and the ValidationError carried when raised = "ValidationError"
Ok(self) == [self |-> self, raised |-> "", err |-> NoErr]
Raise(self, exc, err) == [self |-> self, raised |-> exc, err |-> err]

LogEv(ev, name, arg) == [ev |-> ev, name |-> name, arg |-> arg]

(***************************************************************************)
(* Collaborators of BaseForm that live in rest_framework.forms.fields and  *)
(* rest_framework.core.exceptions.                                         *)
(***************************************************************************)
\* Field.value_from_datadict(data, files): the raw value under the field's
\* name, None when the name is absent
value_from_datadict(self, name) == self.data[name]

\* Field.clean(value): the converted value, or a ValidationError
FieldClean(name, value) ==
    IF value = NoneV
    THEN IF required[name]
         THEN [raised |-> TRUE, value |-> NoneV, err |-> VEList(<<"required">>)]
         ELSE [raised |-> FALSE, value |-> NoneV, err |-> NoErr]
    ELSE [raised |-> FALSE, value |-> "X", err |-> NoErr]

\* Field.has_changed(initial, data)
FieldHasChanged(initial_value, data_value) == initial_value # data_value

\* ValidationError(field_errors) for a dict name -> ValidationError: every
\* value contributes its error_list under its key
VEFromFieldErrors(field_errors) ==
    VEDict([i \in 1..Len(field_errors) |->
                <<field_errors[i][1], field_errors[i][2].items[1][2]>>])

(***************************************************************************)
(* UniqueTogetherValidator (validators.py 84-147) and the queryset helpers *)
(* (validators.py 67-81).  A queryset is the set of its rows; a row and an *)
(* instance are [none, pk, vals].                                          *)
(***************************************************************************)
NoInstance == [none |-> TRUE, pk |-> 0, vals |-> EmptyMap]
Instance(pk, vals) == [none |-> FALSE, pk |-> pk, vals |-> vals]

\* a value the table's column type cannot hold: filtering on it is a data error
IllTyped == {"#"}

qs_exists(qs) == qs # {}

qs_filter(qs, kwargs) ==
    IF \E k \in DOMAIN kwargs : kwargs[k] \in IllTyped
    THEN {}
    ELSE {r \in qs : \A k \in DOMAIN kwargs : r.vals[k] = kwargs[k]}

\* the case-insensitive lookups compare the lowered strings
Lower(v) == IF v = "A" THEN "a" ELSE IF v = "B" THEN "b" ELSE v

\* queryset.filter(<field>__<lookup> = value) on one row
Match(lookup, held, value) ==
    IF lookup = "iexact" THEN Lower(held) = Lower(value) ELSE held = value

\* qs_filter with the one keyword field_name__lookup = value
qs_filter_lookup(qs, field_name, lookup, value) ==
    IF value \in IllTyped
    THEN {}
    ELSE {r \in qs : Match(lookup, r.vals[field_name], value)}

\* UniqueValidator(queryset, lookup): field_name and instance exist only
\* once set_context has run.  failing names the calls on the queryset
\* (filter, exclude, exists) that end in a TypeError, ValueError or DataError
\* for the data at hand.
UV_init(qs, lookup) ==
    [queryset |-> qs, lookup |-> lookup, has_context |-> FALSE,
     field_name |-> NoneV, instance |-> NoInstance, failing |-> {}]

\* UniqueValidator.set_context(serializer_field)
UV_set_context(v, serializer_field) ==
    [v EXCEPT !.has_context = TRUE,
              !.field_name = serializer_field.source_attrs[Len(serializer_field.source_attrs)],
              !.instance = serializer_field.parent_instance]

\* filter_queryset through qs_filter: a failing filter gives noop(), no row
UV_filter_queryset(v, value, qs) ==
    IF "filter" \in v.failing
    THEN {}
    ELSE qs_filter_lookup(qs, v.field_name, v.lookup, value)

\* qs_exists: a failing exists() counts as False
UV_qs_exists(v, qs) == IF "exists" \in v.failing THEN FALSE ELSE qs_exists(qs)

UV_exclude_nothing(v, qs) == qs

UV_exclude_current_instance(v, qs) ==
    IF ~v.instance.none
    THEN {r \in qs : r.pk # v.instance.pk}
    ELSE qs

\* what a call of the validator reports: the candidate value, and the code and
\* field name of the ValidationError if one was raised
UVReport(value, code, field_name) == [value |-> value, code |-> code, field_name |-> field_name]

\* UniqueValidator.__call__(value): the exception raised ("" for none)
UV_call(v, value) ==
    IF ~v.has_context
    THEN [raised |-> "AttributeError", report |-> UVReport(value, "", NoneV)]
    ELSE IF ~v.instance.none /\ "exclude" \in v.failing
    THEN [raised |-> "DataError", report |-> UVReport(value, "", NoneV)]
    ELSE LET qs == UV_exclude_current_instance(v, UV_filter_queryset(v, value, v.queryset))
         IN IF UV_qs_exists(v, qs)
            THEN [raised |-> "ValidationError", report |-> UVReport(value, "unique", v.field_name)]
            ELSE [raised |-> "", report |-> UVReport(value, "", NoneV)]

\* UniqueTogetherValidator.set_context(form)
UTV_set_context(v, self) == [v EXCEPT !.instance = self.instance]

\* the names of v.fields missing from req_params, in the order of v.fields
UTV_missing_all(v, req_params) == v.fields

UTV_missing(v, req_params) ==
    SelectSeq(v.fields, LAMBDA n : n \notin DOMAIN req_params)

UTV_enforce_required_fields(v, req_params) ==
    IF ~v.instance.none
    THEN [raised |-> FALSE, err |-> NoErr]
    ELSE LET missing == UTV_missing(v, req_params)
         IN IF missing # <<>>
            THEN [raised |-> TRUE,
                  err |-> VEDict([i \in 1..Len(missing) |->
                                     <<missing[i], <<"required">>>>])]
            ELSE [raised |-> FALSE, err |-> NoErr]

\* the req_params dict after filter_queryset has filled in, on update, the
\* constrained fields it lacks from the instance
UTV_fill(v, req_params) ==
    IF v.instance.none
    THEN req_params
    ELSE [n \in (DOMAIN req_params) \cup Range(v.fields) |->
             IF n \in DOMAIN req_params THEN req_params[n]
             ELSE v.instance.vals[n]]

UTV_filter_queryset(v, req_params, qs) ==
    LET filled == UTV_fill(v, req_params)
    IN qs_filter(qs, [n \in Range(v.fields) |-> filled[n]])

UTV_exclude_current_instance(v, qs) ==
    IF ~v.instance.none
    THEN {r \in qs : r.pk # v.instance.pk}
    ELSE qs

\* UniqueTogetherValidator.__init__(queryset, fields)
UTV_init(name, fields) == [name |-> name, fields |-> fields, instance |-> NoInstance]

\* the existence check made whatever the checked values are
UTV_checks_none_too(checked_values) == TRUE

\* line 145: None not in checked_values
UTV_none_free(checked_values) == NoneV \notin checked_values

\* queries lists the calls made on the queryset: the exclusion only on update,
\* exists() only when no checked value is None
UTV_queries(v, checked_values) ==
    <<"filter">> \o (IF v.instance.none THEN <<>> ELSE <<"exclude">>)
                \o (IF UTV_none_free(checked_values) THEN <<"exists">> ELSE <<>>)

\* UniqueTogetherValidator.__call__(req_params): req_params is the caller's
\* dict, which filter_queryset changes in place
UTV_call(v, req_params, qs) ==
    LET req == UTV_enforce_required_fields(v, req_params)
    IN IF req.raised
       THEN [raised |-> TRUE, err |-> req.err, req_params |-> req_params,
             queries |-> <<>>, field_names |-> <<>>]
       ELSE LET filled == UTV_fill(v, req_params)
                q1 == UTV_filter_queryset(v, req_params, qs)
                q2 == UTV_exclude_current_instance(v, q1)
                checked_values == {filled[n] : n \in (DOMAIN filled) \cap Range(v.fields)}
            IN IF UTV_none_free(checked_values) /\ qs_exists(q2)
               THEN [raised |-> TRUE, err |-> VEList(<<"unique">>),
                     req_params |-> filled,
                     queries |-> UTV_queries(v, checked_values),
                     field_names |-> v.fields]
               ELSE [raised |-> FALSE, err |-> NoErr, req_params |-> filled,
                     queries |-> UTV_queries(v, checked_values),
                     field_names |-> <<>>]

(***************************************************************************)
(* BaseForm (forms.py 47-262).  The object is the record                   *)
(*   [is_bound, data, files_none, data_none, initial, empty_permitted,     *)
(*    disabled, instance, Meta_validators, _errors, _cleaned_data,         *)
(*    _fields, calls, log]                                                 *)
(* where Meta_validators are the validator objects of the type's Meta,     *)
(* calls counts the entries into full_clean and log lists the calls made:  *)
(* "field" (Field.clean), "hook" (clean_<name>), "except" (the except      *)
(* clause of _clean_fields), "clean" and "clean_done" (clean() with        *)
(* cleaned_data before, _clean_form's end with cleaned_data after),        *)
(* "validator" (with the dict it is handed), and "clean_raised" and        *)
(* "validator_raised" (clean() or a validator raised, with the errors      *)
(* recorded until then).  The outcome of the hooks the form type defines   *)
(* is the input ch = [hook, clean].                                        *)
(***************************************************************************)
RECURSIVE add_error_loop(_, _)
RECURSIVE clean_fields_loop(_, _, _, _)
RECURSIVE clean_validators_loop(_, _)

\* is_bound taken from data alone
InitIsBound_data_only(data_none, files_none) == ~data_none

\* BaseForm.__init__: is_bound
InitIsBound(data_none, files_none) == ~data_none \/ ~files_none

\* BaseForm.__init__
NewForm(data_none, data, files_none, initial, empty_permitted, disabled, instance) ==
    [is_bound |-> InitIsBound(data_none, files_none),
     data_none |-> data_none,
     files_none |-> files_none,
     data |-> IF data_none THEN [n \in FieldNames |-> NoneV] ELSE data,
     initial |-> initial,
     empty_permitted |-> empty_permitted,
     disabled |-> disabled,
     instance |-> instance,
     Meta_validators |-> [i \in 1..Len(ValidatorFields) |->
                            [name |-> ValidatorNames[i], fields |-> ValidatorFields[i],
                             instance |-> NoInstance]],
     _errors |-> NoneMap,
     _cleaned_data |-> NoneMap,
     _fields |-> [none |-> TRUE, keys |-> <<>>],
     calls |-> 0,
     log |-> <<>>]

\* the property BaseForm.fields: binds a copy of base_fields on first access
fields_get(self) ==
    IF self._fields.none
    THEN [self EXCEPT !._fields = [none |-> FALSE, keys |-> base_fields]]
    ELSE self

\* BaseForm.full_clean, lines 158-160, for a form that is not bound
full_clean_unbound(self) ==
    [self EXCEPT !._errors = SomeMap(EmptyMap), !.calls = @ + 1]

\* add_error that puts the new entries in place of the field's earlier ones
add_error_replace(self, field, error_list) ==
    [self EXCEPT !._errors.m[field] = error_list]

\* add_error, line 140: self._errors[field].extend(error_list)
add_error_extend(self, field, error_list) ==
    [self EXCEPT !._errors.m[field] = @ \o error_list]

\* add_error that leaves the field's clean value in place
add_error_discard_kept(self, field) == self

\* add_error, lines 141-142: the field's clean value is dropped
add_error_discard(self, field) ==
    IF field \in DOMAIN self._cleaned_data.m
    THEN [self EXCEPT !._cleaned_data.m = MapDel(@, field)]
    ELSE self

\* add_error, line 141: the read of the property cleaned_data.  _errors is
\* set by now; _cleaned_data is None only on a form that is not bound, and
\* the property then runs full_clean once more
add_error_cleaned_data(self) ==
    IF self._cleaned_data.none /\ ~self.is_bound
    THEN full_clean_unbound(self)
    ELSE self

\* add_error, the loop of lines 134-142 over the (field, error_list) items,
\* entered with _errors set
add_error_loop(self, items) ==
    IF items = <<>>
    THEN Ok(self)
    ELSE LET field == items[1][1]
             error_list == items[1][2]
             absent == field \notin DOMAIN self._errors.m
             s1 == IF absent /\ field # NON_FIELD_ERRORS THEN fields_get(self) ELSE self
         IN IF absent /\ field # NON_FIELD_ERRORS /\ field \notin Range(s1._fields.keys)
            THEN Raise(s1, "ValueError", NoErr)
            ELSE LET s2 == IF absent
                           THEN [s1 EXCEPT !._errors.m = MapPut(@, field, <<>>)]
                           ELSE s1
                     s3 == add_error_extend(s2, field, error_list)
                     s4 == add_error_cleaned_data(s3)
                 IN IF s4._cleaned_data.none
                    THEN Raise(s4, "TypeError", NoErr)
                    ELSE add_error_loop(add_error_discard(s4, field), Tail(items))

\* add_error, lines 123-132: the (field, error_list) items of the error
add_error_items(field, error) ==
    IF error.is_dict
    THEN error.items
    ELSE << <<IF field = NoneV THEN NON_FIELD_ERRORS ELSE field, error.items[1][2]>> >>

\* BaseForm.add_error(field, error) on a form whose _errors is set (as it is
\* inside full_clean); error is a ValidationError
add_error(self, field, error) ==
    IF error.is_dict /\ field # NoneV
    THEN Raise(self, "TypeError", NoErr)
    ELSE add_error_loop(self, add_error_items(field, error))

\* the cached property BaseForm.changed_data, as a set of names
changed_data(self) ==
    {n \in Range(self._fields.keys) :
        FieldHasChanged(self.initial[n], value_from_datadict(self, n))}

\* has_changed that always reports a change
has_changed_always(self) == TRUE

\* BaseForm.has_changed
has_changed(self) == changed_data(self) # {}

\* BaseForm._clean_fields, the loop of lines 177-198 over the names left;
\* field_errors is the dict built so far, as a sequence of <<name, error>>
clean_fields_loop(self, names, field_errors, ch) ==
    IF names = <<>>
    THEN [self |-> self, field_errors |-> field_errors]
    ELSE LET name == names[1]
         IN IF self.disabled[name]
            THEN clean_fields_loop(self, Tail(names), field_errors, ch)
            ELSE LET value == value_from_datadict(self, name)
                     c == FieldClean(name, value)
                     s1 == [self EXCEPT !.log = Append(@, LogEv("field", name, EmptyMap))]
                 IN IF c.raised
                    THEN clean_fields_loop(
                             [s1 EXCEPT !.log = Append(@, LogEv("except", name, EmptyMap))],
                             Tail(names), Append(field_errors, <<name, c.err>>), ch)
                    ELSE LET s2 == [s1 EXCEPT !._cleaned_data.m = MapPut(@, name, c.value)]
                         IN IF name \notin HookFields
                            THEN clean_fields_loop(s2, Tail(names), field_errors, ch)
                            ELSE LET s3 == [s2 EXCEPT !.log =
                                                Append(@, LogEv("hook", name, EmptyMap))]
                                 IN IF ch.hook = "fail"
                                    THEN clean_fields_loop(
                                             [s3 EXCEPT !.log =
                                                 Append(@, LogEv("except", name, EmptyMap))],
                                             Tail(names),
                                             Append(field_errors,
                                                    <<name, VEList(<<"hook">>)>>), ch)
                                    ELSE clean_fields_loop(
                                             [s3 EXCEPT !._cleaned_data.m = MapPut(@, name, "H")],
                                             Tail(names), field_errors, ch)

\* _clean_fields that raises at the first field that fails
clean_fields_first_failure(self, ch) ==
    LET s0 == fields_get(self)
        r1 == clean_fields_loop(s0, SubSeq(s0._fields.keys, 1, 1), <<>>, ch)
        r == IF r1.field_errors # <<>>
             THEN r1
             ELSE clean_fields_loop(r1.self, Tail(s0._fields.keys), <<>>, ch)
    IN IF r.field_errors # <<>>
       THEN Raise(r.self, "ValidationError", VEFromFieldErrors(r.field_errors))
       ELSE Ok(r.self)

\* BaseForm._clean_fields
clean_fields(self, ch) ==
    LET s0 == fields_get(self)
        r == clean_fields_loop(s0, s0._fields.keys, <<>>, ch)
    IN IF r.field_errors # <<>>
       THEN Raise(r.self, "ValidationError", VEFromFieldErrors(r.field_errors))
       ELSE Ok(r.self)

\* what the form type's clean() returns in place of cleaned_data when it
\* builds a new dict
CleanReplacement(cleaned) == [k \in DOMAIN cleaned |-> "R"]

\* _clean_form without the try: the ValidationError of clean() goes on to
\* full_clean
clean_form_propagating(self, ch) ==
    LET s1 == [self EXCEPT !.log = Append(@, LogEv("clean", "", self._cleaned_data.m))]
        r == CASE ch.clean = "raise" ->
                      Raise([s1 EXCEPT !.log = Append(@, LogEv("clean_raised", "",
                                                               s1._errors.m))],
                            "ValidationError", VEList(<<"form">>))
               [] ch.clean = "replace" ->
                      Ok([s1 EXCEPT !._cleaned_data = SomeMap(CleanReplacement(@.m))])
               [] OTHER -> Ok(s1)
    IN [r EXCEPT !.self.log = Append(@, LogEv("clean_done", "", r.self._cleaned_data.m))]

\* BaseForm._clean_form; ch.clean is what the type's clean() does:
\* "default" returns self._cleaned_data, "none" returns None, "replace" returns
\* a new dict, "raise" raises a ValidationError (of no particular field, as
\* the docstring of clean() has it)
clean_form(self, ch) ==
    LET s1 == [self EXCEPT !.log = Append(@, LogEv("clean", "", self._cleaned_data.m))]
        r == CASE ch.clean = "raise" ->
                      add_error([s1 EXCEPT !.log = Append(@, LogEv("clean_raised", "",
                                                                   s1._errors.m))],
                                NoneV, VEList(<<"form">>))
               [] ch.clean = "replace" ->
                      Ok([s1 EXCEPT !._cleaned_data = SomeMap(CleanReplacement(@.m))])
               [] OTHER -> Ok(s1)
    IN [r EXCEPT !.self.log = Append(@, LogEv("clean_done", "", r.self._cleaned_data.m))]

\* BaseForm._clean_validators, the loop of lines 223-227 from validator i on
\* (_cleaned_data is set when the loop runs, so the property returns it)
clean_validators_loop(self, i) ==
    IF i > Len(self.Meta_validators)
    THEN Ok(self)
    ELSE LET v == UTV_set_context(self.Meta_validators[i], self)
             arg == self._cleaned_data.m
             out == UTV_call(v, arg, queryset)
             s1 == [self EXCEPT
                      !.Meta_validators[i] = v,
                      !.log = Append(@, LogEv("validator", v.name, arg)),
                      !._cleaned_data.m = out.req_params]
         IN IF out.raised
            THEN Raise([s1 EXCEPT !.log = Append(@, LogEv("validator_raised", v.name,
                                                          s1._errors.m))],
                       "ValidationError", out.err)
            ELSE clean_validators_loop(s1, i + 1)

\* BaseForm._clean_validators
clean_validators(self) == clean_validators_loop(self, 1)

\* the three steps with the validators run before the form-level clean()
full_clean_steps_validators_first(self, ch) ==
    LET r1 == clean_fields(self, ch)
    IN IF r1.raised # "" THEN r1
       ELSE LET r2 == clean_validators(r1.self)
            IN IF r2.raised # "" THEN r2
               ELSE clean_form(r2.self, ch)

\* the three steps with clean() called even when a field has failed
full_clean_steps_form_always(self, ch) ==
    LET r1 == clean_fields(self, ch)
        r2 == clean_form(r1.self, ch)
    IN IF r1.raised # "" THEN [r2 EXCEPT !.raised = r1.raised, !.err = r1.err]
       ELSE IF r2.raised # "" THEN r2
       ELSE clean_validators(r2.self)

\* BaseForm.full_clean, lines 167-172: the three steps; the result carries
\* the ValidationError that reaches the except clause, if any
full_clean_steps(self, ch) ==
    LET r1 == clean_fields(self, ch)
    IN IF r1.raised # "" THEN r1
       ELSE LET r2 == clean_form(r1.self, ch)
            IN IF r2.raised # "" THEN r2
               ELSE clean_validators(r2.self)

\* BaseForm.full_clean, lines 171-172: except ValidationError as e
full_clean_except(r) ==
    IF r.raised = "ValidationError" THEN add_error(r.self, NoneV, r.err) ELSE r

\* BaseForm.full_clean
full_clean(self, ch) ==
    IF ~self.is_bound
    THEN Ok(full_clean_unbound(self))
    ELSE LET s2 == [self EXCEPT !._errors = SomeMap(EmptyMap), !.calls = @ + 1,
                                !._cleaned_data = SomeMap(EmptyMap)]
             s3 == IF s2.empty_permitted THEN fields_get(s2) ELSE s2
         IN IF s3.empty_permitted /\ ~has_changed(s3)
            THEN Ok(s3)
            ELSE full_clean_except(full_clean_steps(s3, ch))

\* the property BaseForm.errors
errors_get(self, ch) ==
    IF self._errors.none THEN full_clean(self, ch) ELSE Ok(self)

\* the property BaseForm.cleaned_data
cleaned_data_get(self, ch) ==
    IF self._cleaned_data.none THEN full_clean(self, ch) ELSE Ok(self)

\* BaseForm.add_error(field, error) called from outside full_clean: the first
\* read of self.errors (line 135) may run the clean cycle
add_error_call(self, field, error, ch) ==
    IF error.is_dict /\ field # NoneV
    THEN Raise(self, "TypeError", NoErr)
    ELSE IF add_error_items(field, error) = <<>>
    THEN Ok(self)
    ELSE LET r == errors_get(self, ch)
         IN IF r.raised # "" THEN r
            ELSE add_error_loop(r.self, add_error_items(field, error))

\* BaseForm.is_valid: the value returned, after errors has been read
is_valid_value(self) == self.is_bound /\ self._errors.m = EmptyMap

(***************************************************************************)
(* The form specification: one FormInstance of the type, built from any    *)
(* constructor arguments, then read and given errors by its caller.        *)
(***************************************************************************)
RawValues == {NoneV, "x"}
InitialValues == {NoneV, "x"}

\* the table behind the validators' queryset and the instance the form edits
Row1 == Instance(1, [n \in FieldNames |-> IF n = "a" THEN "X" ELSE "H"])
Row2 == Instance(2, [n \in FieldNames |-> IF n = "a" THEN "X" ELSE NoneV])
Tables == { <<{}, NoInstance>>, <<{Row1}, NoInstance>>, <<{Row1}, Row1>>,
            <<{Row1, Row2}, Row2>> }

\* what the hooks of the form type do in one clean cycle
Choices == [hook : {"ok", "fail"},
            clean : {"default", "none", "replace", "raise"}]

\* the hooks run only in a clean cycle: once _errors and _cleaned_data are set
\* no operation enters one and their outcome is no input
ChoicesFor(self) ==
    IF self._errors.none \/ self._cleaned_data.none
    THEN Choices
    ELSE {[hook |-> "ok", clean |-> "default"]}

\* the errors a caller hands to add_error
CallerErrors == { VEList(<<"manual">>),
                  VEDict(<< <<"a", <<"manual">>>> >>),
                  VEDict(<< <<"b", <<"manual">>>>, <<UnknownName, <<"manual">>>> >>),
                  VEDict(<< <<UnknownName, <<"manual">>>>, <<"a", <<"manual">>>> >>),
                  VEDict(<< <<NON_FIELD_ERRORS, <<"manual">>>> >>) }
CallerFields == {NoneV, "a", "b", UnknownName}

\* ret: the operation, the exception it raised ("" if none), the value of
\* is_valid(), and the arguments of add_error
NoCall == [field |-> NoneV, error |-> NoErr]
Returned(op, raised, value) ==
    [op |-> op, raised |-> raised, value |-> value, call |-> NoCall]

\* no request is being filtered, no pair of forms is being cleaned
IdleFilter == request_handler = NoneV
IdlePair == instances = <<>> /\ heap = <<>> /\ meta_validator = NoneV
IdleReg == classes = <<>> /\ counter = 1
IdleUV ==
    /\ uv = UV_init({}, "exact")
    /\ uvret = Returned("init", "", UVReport(NoneV, "", NoneV))

InitForm ==
    /\ \E data_none \in BOOLEAN, files_none \in BOOLEAN, empty_permitted \in BOOLEAN,
          data \in [FieldNames -> RawValues], initial \in [FieldNames -> InitialValues],
          disabled \in [FieldNames -> BOOLEAN], t \in Tables :
          /\ data_none => data = [n \in FieldNames |-> NoneV]
          \* files counts for is_bound only, which data decides when given
          /\ ~data_none => files_none
          \* initial is read by has_changed only, which runs under
          \* empty_permitted only
          /\ ~empty_permitted => initial = [n \in FieldNames |-> NoneV]
          /\ queryset = t[1]
          /\ form = NewForm(data_none, data, files_none, initial, empty_permitted,
                            disabled, t[2])
    /\ ret = Returned("init", "", FALSE)
    /\ nadd = 0
    /\ IdleReg
    /\ IdleUV
    /\ IdleFilter
    /\ IdlePair

\* the caller reads form.errors
ReadErrors ==
    /\ form.calls < MaxCalls
    /\ \E ch \in ChoicesFor(form) :
          LET r == errors_get(form, ch)
          IN /\ form' = r.self
             /\ ret' = Returned("errors", r.raised, FALSE)
    /\ UNCHANGED <<queryset, nadd, classes, counter, uv, uvret>>
    /\ UNCHANGED <<filterVars, pairVars>>

\* the caller reads form.cleaned_data
ReadCleanedData ==
    /\ form.calls < MaxCalls
    /\ \E ch \in ChoicesFor(form) :
          LET r == cleaned_data_get(form, ch)
          IN /\ form' = r.self
             /\ ret' = Returned("cleaned_data", r.raised, FALSE)
    /\ UNCHANGED <<queryset, nadd, classes, counter, uv, uvret>>
    /\ UNCHANGED <<filterVars, pairVars>>

\* the caller calls form.is_valid()
IsValid ==
    /\ form.calls < MaxCalls
    /\ \E ch \in ChoicesFor(form) :
          IF ~form.is_bound
          THEN /\ form' = form
               /\ ret' = Returned("is_valid", "", FALSE)
          ELSE LET r == errors_get(form, ch)
               IN /\ form' = r.self
                  /\ ret' = Returned("is_valid", r.raised,
                                     r.raised = "" /\ is_valid_value(r.self))
    /\ UNCHANGED <<queryset, nadd, classes, counter, uv, uvret>>
    /\ UNCHANGED <<filterVars, pairVars>>

\* the caller calls form.add_error(field, error)
AddError ==
    /\ form.calls < MaxCalls
    /\ nadd < MaxAddError
    /\ \E ch \in ChoicesFor(form), field \in CallerFields, error \in CallerErrors :
          LET r == add_error_call(form, field, error, ch)
          IN /\ form' = r.self
             /\ ret' = [Returned("add_error", r.raised, FALSE)
                          EXCEPT !.call = [field |-> field, error |-> error]]
    /\ nadd' = nadd + 1
    /\ UNCHANGED <<queryset, classes, counter, uv, uvret>>
    /\ UNCHANGED <<filterVars, pairVars>>

NextForm == ReadErrors \/ ReadCleanedData \/ IsValid \/ AddError

SpecForm == InitForm /\ [][NextForm]_vars

(***************************************************************************)
(* Properties of the form (checked under SpecForm).                        *)
(***************************************************************************)
Errors == form._errors.m
Cleaned == form._cleaned_data.m
Log == form.log
LogIdx(ev, name) == {i \in 1..Len(Log) : Log[i].ev = ev /\ Log[i].name = name}
LogEvs(ev) == {i \in 1..Len(Log) : Log[i].ev = ev}
\* the field's clean or its clean_<name> hook raised
FieldFailed(n) == LogIdx("except", n) # {}
\* the field was cleaned and nothing raised
FieldSucceeded(n) == LogIdx("field", n) # {} /\ ~FieldFailed(n)
\* the data equals the initial values for every field
Unchanged == \A n \in FieldNames : form.data[n] = form.initial[n]
\* the clean cycle of a bound form has run and the caller added no error since
CycleDone == form.is_bound /\ form.calls >= 1 /\ nadd = 0
PosOf(seq, x) == CHOOSE i \in 1..Len(seq) : seq[i] = x

\* C1: whatever errors, cleaned_data and is_valid() reads are made of a form
\* (bound or not), full_clean is entered at most once.
C1_CleaningRunsOnce == nadd = 0 => form.calls <= 1

PhaseOf(e) == CASE e.ev \in {"field", "hook", "except"} -> 1
                [] e.ev \in {"clean", "clean_raised", "clean_done"} -> 2
                [] OTHER -> 3
PhasesInOrder ==
    /\ \A i, j \in 1..Len(Log) : i < j => PhaseOf(Log[i]) <= PhaseOf(Log[j])
    /\ \A i, j \in LogEvs("field") :
           i < j => PosOf(base_fields, Log[i].name) < PosOf(base_fields, Log[j].name)
    /\ \A i, j \in LogEvs("validator") :
           i < j => PosOf(ValidatorNames, Log[i].name) < PosOf(ValidatorNames, Log[j].name)
    /\ Cardinality(LogEvs("clean")) <= 1
\* cleaned_data as the form-level step left it
AfterFormStep == Log[CHOOSE i \in LogEvs("clean_done") : TRUE].arg

\* C4 as stated: the phases run in order, and every validator receives
\* cleaned_data as it stands after the form-level step.
C4_AsStated ==
    /\ PhasesInOrder
    /\ \A i \in LogEvs("validator") : Log[i].arg = AfterFormStep

\* C4 amended: the phases run in order; the first validator receives
\* cleaned_data as it stands after the form-level step (a replacement
\* returned by clean() included), and a later one receives it with, in
\* addition, the entries earlier validators filled in from the instance
\* being updated.
C4_PhasesInOrder ==
    /\ PhasesInOrder
    /\ \A i \in LogEvs("validator") :
           /\ DOMAIN AfterFormStep \subseteq DOMAIN Log[i].arg
           /\ \A k \in DOMAIN AfterFormStep : Log[i].arg[k] = AfterFormStep[k]
           /\ \A k \in (DOMAIN Log[i].arg) \ DOMAIN AfterFormStep :
                  /\ ~form.instance.none
                  /\ Log[i].arg[k] = form.instance.vals[k]
                  /\ \E j \in LogEvs("validator") : j < i
           /\ Log[i].name = "v1" => Log[i].arg = AfterFormStep

\* C4 witness: both fields were cleaned, clean() returned a replacement and
\* both validators were handed it.
C4_Witness ==
    /\ LogIdx("field", "a") # {} /\ LogIdx("field", "b") # {}
    /\ LogIdx("validator", "v1") # {} /\ LogIdx("validator", "v2") # {}
    /\ AfterFormStep = [n \in FieldNames |-> "R"]
    /\ \A i \in LogEvs("validator") : Log[i].arg = AfterFormStep

\* C5: a bound form with empty_permitted whose data equals the initial
\* values for every field runs no field clean, hook, clean() or validator;
\* it ends with cleaned_data = {} and no errors, and is_valid() is true.
C5_EmptyPermittedSkips ==
    CycleDone /\ form.empty_permitted /\ Unchanged =>
        /\ Log = <<>>
        /\ ~form._cleaned_data.none /\ Cleaned = EmptyMap
        /\ Errors = EmptyMap
        /\ ret.op = "is_valid" => ret.raised = "" /\ ret.value

\* C5 witness: such a form, with a required field left empty, found valid.
C5_Witness ==
    /\ CycleDone /\ form.empty_permitted /\ Unchanged
    /\ form.data["a"] = NoneV /\ ~form.disabled["a"]
    /\ ret.op = "is_valid" /\ ret.value

\* C6: is_valid() is true iff the form is bound and errors is empty; a form
\* is bound iff data or files was given (an empty mapping counts); a form
\* that is not bound runs no clean, hook or validator, has empty errors and
\* is not valid.
C6_IsValidIffBoundAndNoErrors ==
    /\ form.is_bound = (~form.data_none \/ ~form.files_none)
    /\ ret.op = "is_valid" =>
           /\ ret.raised = ""
           /\ ret.value = (form.is_bound /\ Errors = EmptyMap)
    /\ ~form.is_bound =>
           /\ Log = <<>>
           /\ Errors = EmptyMap
           /\ ret.op = "is_valid" => ~ret.value

\* C6 witness: a form given files but no data is bound and found valid.
C6_Witness ==
    /\ form.data_none /\ ~form.files_none
    /\ ret.op = "is_valid" /\ ret.value

\* the field names an add_error call is aimed at
TargetsOf(call) ==
    IF call.error.is_dict
    THEN {call.error.items[i][1] : i \in 1..Len(call.error.items)}
    ELSE {IF call.field = NoneV THEN NON_FIELD_ERRORS ELSE call.field}

\* C7: add_error raises ValueError exactly when one of the names it is aimed
\* at (the field given, or a key of a multi-field error) is neither a field
\* of the registry nor the non-field key.
C7_UnknownFieldRejected ==
    ret.op = "add_error" /\ ~(ret.call.error.is_dict /\ ret.call.field # NoneV) =>
        ((ret.raised = "ValueError") <=>
            (TargetsOf(ret.call) \ (FieldNames \cup {NON_FIELD_ERRORS}) # {}))

\* the errors before are still there after, each list extended at its end
Preserved(before, after) ==
    \A k \in DOMAIN before :
        /\ k \in DOMAIN after
        /\ Len(before[k]) <= Len(after[k])
        /\ SubSeq(after[k], 1, Len(before[k])) = before[k]

\* the entries an add_error call brings for field n
NewEntries(call, n) ==
    LET items == add_error_items(call.field, call.error)
    IN items[CHOOSE i \in 1..Len(items) : items[i][1] = n][2]

\* C19: an add_error that succeeds on a form whose errors are recorded puts
\* the new entries after the field's earlier ones, removes the field from
\* cleaned_data, and leaves the errors and the cleaned_data of every other
\* field as they were.
C19_AddErrorFrame ==
    [][ ( /\ ret'.op = "add_error" /\ nadd' = nadd + 1 /\ ret'.raised = ""
          /\ ~form._errors.none /\ ~form._cleaned_data.none )
        => LET T == TargetsOf(ret'.call)
           IN /\ \A n \in T :
                     /\ n \in DOMAIN form'._errors.m
                     /\ form'._errors.m[n] =
                            (IF n \in DOMAIN form._errors.m THEN form._errors.m[n] ELSE <<>>)
                            \o NewEntries(ret'.call, n)
                     /\ n \notin DOMAIN form'._cleaned_data.m
              /\ DOMAIN form'._errors.m = (DOMAIN form._errors.m) \cup T
              /\ \A n \in (DOMAIN form._errors.m) \ T : form'._errors.m[n] = form._errors.m[n]
              /\ DOMAIN form'._cleaned_data.m = (DOMAIN form._cleaned_data.m) \ T
              /\ \A n \in DOMAIN form'._cleaned_data.m :
                     form'._cleaned_data.m[n] = form._cleaned_data.m[n]
      ]_vars

\* C19 witness: a, which failed as required, got a second entry by add_error
\* while b kept its clean value.
C19_Witness ==
    /\ ret.op = "add_error" /\ ret.raised = "" /\ ret.call.field = "a"
    /\ "a" \in DOMAIN Errors /\ Errors["a"] = <<"required", "manual">>
    /\ "b" \in DOMAIN Cleaned

ValidatorFieldsOf(name) ==
    ValidatorFields[CHOOSE k \in 1..Len(ValidatorNames) : ValidatorNames[k] = name]

\* the failure logged at i is the required pre-check of the validator: the
\* form creates and the dict handed to the validator lacks a constrained field
RequiredFailure(i) ==
    /\ form.instance.none
    /\ \E n \in Range(ValidatorFieldsOf(Log[i].name)) : n \notin DOMAIN Log[i - 1].arg

\* C21: when a validator of Meta.validators fails in the clean cycle, the
\* failure is recorded under the non-field key, errors gets no key of a field
\* from it, and the read that started the cycle returns normally.
C21_ValidatorFailureIsNonField ==
    CycleDone =>
        \A i \in LogEvs("validator_raised") :
            /\ ret.raised = ""
            /\ NON_FIELD_ERRORS \in DOMAIN Errors
            /\ DOMAIN Errors \subseteq (DOMAIN Log[i].arg) \cup {NON_FIELD_ERRORS}

\* the same for the uniqueness failures alone
C21_UniquenessFailureIsNonField ==
    CycleDone =>
        \A i \in LogEvs("validator_raised") :
            ~RequiredFailure(i) =>
                /\ ret.raised = ""
                /\ NON_FIELD_ERRORS \in DOMAIN Errors
                /\ "unique" \in Range(Errors[NON_FIELD_ERRORS])
                /\ DOMAIN Errors \subseteq (DOMAIN Log[i].arg) \cup {NON_FIELD_ERRORS}

\* a required pre-check failed in a clean cycle and left a key of a field
C21_RequiredUnderFieldKey ==
    /\ CycleDone
    /\ \E i \in LogEvs("validator_raised") :
          /\ RequiredFailure(i)
          /\ \E n \in FieldNames : n \in DOMAIN Errors /\ n \notin DOMAIN Log[i].arg

\* the names of the fields that failed in the per-field step
FailedFields == {Log[i].name : i \in LogEvs("except")}

\* the error of a failed field: that of its hook when the hook was reached,
\* that of Field.clean otherwise
FieldErrorOf(n) == IF LogIdx("hook", n) # {} THEN <<"hook">> ELSE <<"required">>

\* C25: when a field fails in the per-field step, the cycle calls neither
\* clean() nor any validator, and errors holds exactly the entries of the
\* fields that failed.
C25_FieldFailureSkipsLaterSteps ==
    (CycleDone /\ FailedFields # {}) =>
        /\ LogEvs("clean") = {}
        /\ LogEvs("validator") = {}
        /\ DOMAIN Errors = FailedFields
        /\ \A n \in FailedFields : Errors[n] = FieldErrorOf(n)

\* C25 witness: a failed as required, b was cleaned and its hook ran, and
\* neither clean() nor a validator was called.
C25_Witness ==
    /\ CycleDone
    /\ FailedFields = {"a"}
    /\ Errors = [n \in {"a"} |-> <<"required">>]
    /\ LogIdx("hook", "b") # {}
    /\ "b" \in DOMAIN Cleaned
    /\ LogEvs("clean") = {} /\ LogEvs("validator") = {}

\* an add_error call on a cleaned bound form that raised TypeError or
\* ValueError
AddErrorRejected ==
    /\ ret'.op = "add_error" /\ nadd' = nadd + 1
    /\ ret'.raised \in {"TypeError", "ValueError"}
    /\ form.is_bound /\ ~form._errors.none /\ ~form._cleaned_data.none

\* C26: an add_error call that raises on a cleaned bound form leaves errors
\* and cleaned_data as they were before the call.
C26_RejectionChangesNothing ==
    [][ AddErrorRejected =>
            /\ form'._errors = form._errors
            /\ form'._cleaned_data = form._cleaned_data
      ]_vars

\* the same for the calls that are rejected at their first target
C26_RejectedAtFirstTarget ==
    [][ ( /\ AddErrorRejected
          /\ \/ ret'.raised = "TypeError"
             \/ LET items == add_error_items(ret'.call.field, ret'.call.error)
                IN /\ items[1][1] # NON_FIELD_ERRORS
                   /\ items[1][1] \notin FieldNames )
        => /\ form'._errors = form._errors
           /\ form'._cleaned_data = form._cleaned_data
      ]_vars

\* a call with an error for b and for an unknown name raised ValueError and
\* left its entry for b in errors
C26_PartialEntry ==
    /\ ret.op = "add_error" /\ ret.raised = "ValueError"
    /\ form.is_bound
    /\ "b" \in DOMAIN Errors /\ "manual" \in Range(Errors["b"])

(***************************************************************************)
(* DeclarativeFieldsMetaclass (forms.py 14-44).  A form type is the record *)
(*   [bases, attrs, dict_none, mro, declared_fields]                       *)
(* bases: its base types, as indices into classes (0 is Form itself);      *)
(* attrs: the class body as <<name, value>> in insertion order, the value  *)
(* 0 for None and otherwise the creation_counter of a Field;               *)
(* dict_none: the names its __dict__ maps to None; mro: its __mro__ (down  *)
(* to Form); declared_fields: the merged registry (= base_fields), an      *)
(* OrderedDict held as a sequence of <<name, creation_counter>>.           *)
(***************************************************************************)
RECURSIVE C3Merge(_)
RECURSIVE ODUpdate(_, _)
RECURSIVE SortByCounter(_)
RECURSIVE WalkMro(_, _, _)

Names == {"x", "y"}

\* Form: created by the metaclass with no field, declared_fields = {}
FormClass == [bases |-> <<>>, attrs |-> <<>>, dict_none |-> {},
              mro |-> <<0>>, declared_fields |-> <<>>]
ClassAt(cs, k) == IF k = 0 THEN FormClass ELSE cs[k]

\* Python's C3 linearisation (type.__new__); a result holding -1 stands for
\* the TypeError of an inconsistent hierarchy
C3Merge(seqs) ==
    LET live == SelectSeq(seqs, LAMBDA q : q # <<>>)
    IN IF live = <<>>
       THEN <<>>
       ELSE LET cands == {i \in 1..Len(live) :
                             \A j \in 1..Len(live) : live[i][1] \notin Range(Tail(live[j]))}
            IN IF cands = {}
               THEN <<-1>>
               ELSE LET i == CHOOSE c \in cands : \A d \in cands : c <= d
                        h == live[i][1]
                    IN <<h>> \o C3Merge([j \in 1..Len(live) |->
                                            IF live[j][1] = h THEN Tail(live[j])
                                            ELSE live[j]])

\* __mro__ of a new type number id with the given bases
MroOf(cs, id, bases) ==
    <<id>> \o C3Merge([i \in 1..Len(bases) |-> ClassAt(cs, bases[i]).mro] \o <<bases>>)

ODKeys(od) == {od[i][1] : i \in 1..Len(od)}
ODGet(od, name) == od[CHOOSE i \in 1..Len(od) : od[i][1] = name][2]
ODPos(od, name) == CHOOSE i \in 1..Len(od) : od[i][1] = name
\* OrderedDict.update(items): a key already there keeps its place
ODUpdate(od, items) ==
    IF items = <<>>
    THEN od
    ELSE LET e == items[1]
         IN ODUpdate(IF e[1] \in ODKeys(od)
                     THEN [i \in 1..Len(od) |-> IF od[i][1] = e[1] THEN e ELSE od[i]]
                     ELSE Append(od, e),
                     Tail(items))

\* lines 19-24: the Field attributes of the class body, sorted by
\* creation_counter
SortByCounter(fs) ==
    IF fs = <<>>
    THEN <<>>
    ELSE LET i == CHOOSE k \in 1..Len(fs) : \A l \in 1..Len(fs) : fs[k][2] <= fs[l][2]
         IN <<fs[i]>> \o SortByCounter(SelectSeq(fs, LAMBDA e : e # fs[i]))

current_fields(attrs) == SortByCounter(SelectSeq(attrs, LAMBDA e : e[2] # 0))

\* lines 36-39: every name the base's __dict__ maps to None is popped
Shadow(od, dict_none) == SelectSeq(od, LAMBDA e : e[1] \notin dict_none)

\* lines 31-39: the walk through reversed(new_class.__mro__); order holds the
\* types still to visit, root first
WalkMro(cs, order, declared_fields) ==
    IF order = <<>>
    THEN declared_fields
    ELSE LET base == ClassAt(cs, order[1])
         IN WalkMro(cs, Tail(order),
                    Shadow(ODUpdate(declared_fields, base.declared_fields),
                           base.dict_none))

Reverse(q) == [i \in 1..Len(q) |-> q[Len(q) + 1 - i]]

\* DeclarativeFieldsMetaclass.__new__(name, bases, attrs) for type number id
MetaNew(cs, id, bases, attrs) ==
    LET new_class == [bases |-> bases, attrs |-> attrs,
                      dict_none |-> {attrs[i][1] : i \in {k \in 1..Len(attrs) : attrs[k][2] = 0}},
                      mro |-> MroOf(cs, id, bases),
                      declared_fields |-> current_fields(attrs)]
        cs1 == Append(cs, new_class)
    IN [new_class EXCEPT !.declared_fields = WalkMro(cs1, Reverse(new_class.mro), <<>>)]

NumFields(attrs) == Len(SelectSeq(attrs, LAMBDA e : e[2] # 0))
NumNone(attrs) == Len(SelectSeq(attrs, LAMBDA e : e[2] = 0))

\* the class bodies over the names x, y (written in this order): each name
\* absent, None, or a Field; c is the next creation_counter, and two Fields
\* may have been created in either order
AttrChoices(c) ==
    LET one(n) == { <<>>, << <<n, 0>> >>, << <<n, c>> >> }
        both == { << <<"x", c>>, <<"y", c + 1>> >>, << <<"x", c + 1>>, <<"y", c>> >> }
    IN {q \in {p[1] \o p[2] : p \in one("x") \X one("y")} : NumFields(q) < 2} \cup both

DeclsSoFar == counter - 1
ShadowsSoFar == Cardinality({<<k, n>> \in (1..Len(classes)) \X Names : n \in classes[k].dict_none})

\* the base lists: one or two distinct types defined so far
BaseChoices(n) ==
    {<<b>> : b \in 0..n} \cup {<<b1, b2>> : <<b1, b2>> \in {q \in (1..n) \X (1..n) : q[1] # q[2]}}

IdleFormObject ==
    /\ form = NewForm(TRUE, [n \in FieldNames |-> NoneV], TRUE,
                      [n \in FieldNames |-> NoneV], FALSE,
                      [n \in FieldNames |-> FALSE], NoInstance)
    /\ ret = Returned("init", "", FALSE)
    /\ nadd = 0

IdleForm ==
    /\ IdleFormObject
    /\ queryset = {}

InitRegistry ==
    /\ classes = <<>>
    /\ counter = 1
    /\ IdleForm
    /\ IdleUV
    /\ IdleFilter
    /\ IdlePair

\* a class statement: class K(bases): attrs
DefineClass ==
    /\ Len(classes) < MaxClasses
    /\ \E bases \in BaseChoices(Len(classes)), attrs \in AttrChoices(counter) :
          /\ DeclsSoFar + NumFields(attrs) <= MaxDecls
          /\ ShadowsSoFar + NumNone(attrs) <= MaxShadows
          /\ -1 \notin Range(MroOf(classes, Len(classes) + 1, bases))
          /\ classes' = Append(classes, MetaNew(classes, Len(classes) + 1, bases, attrs))
          /\ counter' = counter + NumFields(attrs)
    /\ UNCHANGED <<form, queryset, ret, nadd, uv, uvret>>
    /\ UNCHANGED <<filterVars, pairVars>>

NextRegistry == DefineClass

SpecRegistry == InitRegistry /\ [][NextRegistry]_vars

(***************************************************************************)
(* Properties of the field registry                                        *)
(***************************************************************************)
ClassIds == 1..Len(classes)
MroIn(k) == ClassAt(classes, k).mro
Registry(k) == ClassAt(classes, k).declared_fields
\* place of type c in the linearised ancestor chain of k (1 is k itself)
MroIdx(k, c) == CHOOSE i \in 1..Len(MroIn(k)) : MroIn(k)[i] = c
\* type c declares a Field named n in its own body
Declares(c, n) == n \in ODKeys(current_fields(ClassAt(classes, c).attrs))
OwnCounter(c, n) == ODGet(current_fields(ClassAt(classes, c).attrs), n)
\* the type of k's chain whose declaration of n is the one in k's registry
DeclaredBy(k, n) ==
    CHOOSE c \in Range(MroIn(k)) : Declares(c, n) /\ OwnCounter(c, n) = ODGet(Registry(k), n)
\* the root-most type of k's chain that declares n
FirstIntroducedBy(k, n) ==
    CHOOSE c \in Range(MroIn(k)) :
        /\ Declares(c, n)
        /\ \A d \in Range(MroIn(k)) : Declares(d, n) => MroIdx(k, d) <= MroIdx(k, c)

\* C8: a name that a type b of k's linearised chain sets to None is absent
\* from the registry of k (k = b included) whenever no type of the chain that is
\* more derived than b declares a Field of that name, even though a more-base
\* type declared it.
C8_ShadowDelete ==
    \A k \in ClassIds : \A b \in Range(MroIn(k)) : \A n \in Names :
        ( /\ n \in ClassAt(classes, b).dict_none
          /\ \A c \in Range(MroIn(k)) : MroIdx(k, c) < MroIdx(k, b) => ~Declares(c, n) )
        => n \notin ODKeys(Registry(k))

\* the second half of C8: a Field redeclared on the type itself is in its
\* registry and is that declaration
C8_RedeclaredWins ==
    \A k \in ClassIds : \A n \in Names :
        Declares(k, n) => n \in ODKeys(Registry(k)) /\ ODGet(Registry(k), n) = OwnCounter(k, n)

\* the shadow-delete of a type's own None attribute
C8_OwnShadow ==
    \A k \in ClassIds : \A n \in ClassAt(classes, k).dict_none : n \notin ODKeys(Registry(k))

\* a type's newly declared fields stand in creation_counter order
C9_OwnByCounter ==
    \A k \in ClassIds : \A n1, n2 \in Names :
        ( /\ Declares(k, n1) /\ Declares(k, n2)
          /\ \A c \in Range(MroIn(k)) \ {k} : ~Declares(c, n1) /\ ~Declares(c, n2)
          /\ OwnCounter(k, n1) < OwnCounter(k, n2) )
        => ODPos(Registry(k), n1) < ODPos(Registry(k), n2)

\* a field inherited from a type of the chain precedes every name first
\* introduced by a more derived type of the chain
C9_Layered ==
    \A k \in ClassIds : \A n1, n2 \in ODKeys(Registry(k)) :
        ( /\ n1 # n2
          /\ DeclaredBy(k, n1) # k
          /\ MroIdx(k, FirstIntroducedBy(k, n2)) < MroIdx(k, DeclaredBy(k, n1)) )
        => ODPos(Registry(k), n1) < ODPos(Registry(k), n2)

\* a type none of whose chain declares a Field has an empty registry
C9_EmptyWhenNoFields ==
    \A k \in ClassIds :
        (\A c \in Range(MroIn(k)) : \A n \in Names : ~Declares(c, n)) => Registry(k) = <<>>

\* C9: the registry of every type lists the type's own new fields in
\* creation_counter order, lays the inheritance layers out root to leaf
\* (inherited fields before the names a more derived type introduces), and is
\* empty for a type without fields.
C9_RegistryOrder == C9_OwnByCounter /\ C9_Layered /\ C9_EmptyWhenNoFields

\* the layering can only break in a state where the shadow-delete broke
C9_LayeredUnlessResurrected == C8_ShadowDelete => C9_Layered

(***************************************************************************)
(* UniqueValidator (validators.py 9-58) on a table with the columns name   *)
(* and email.                                                              *)
(***************************************************************************)
Cols == {"name", "email"}
HeldValues == {"a", "B"}
CandidateValues == {"a", "A", "b", "#"}
Lookups == {"exact", "iexact"}

UVRows == {Instance(pk, vals) : pk \in 1..MaxPk, vals \in [Cols -> HeldValues]}
\* the tables: the primary key is unique
UVTables == {t \in SUBSET UVRows : \A r1, r2 \in t : r1.pk = r2.pk => r1 = r2}

\* the fields the validator is attached to: source_attrs and the instance of
\* the parent (None on create, a row of the table on update)
SerializerFields(qs) ==
    [source_attrs : {<<"name">>, <<"profile", "email">>}, parent_instance : {NoInstance} \cup qs]

InitUnique ==
    /\ \E qs \in UVTables, lookup \in Lookups : uv = UV_init(qs, lookup)
    /\ uvret = Returned("init", "", UVReport(NoneV, "", NoneV))
    /\ IdleForm
    /\ IdleReg
    /\ IdleFilter
    /\ IdlePair

SetContext ==
    /\ \E serializer_field \in SerializerFields(uv.queryset) :
          uv' = UV_set_context(uv, serializer_field)
    /\ uvret' = Returned("set_context", "", UVReport(NoneV, "", NoneV))
    /\ UNCHANGED <<formVars, regVars>>
    /\ UNCHANGED <<filterVars, pairVars>>

Call ==
    /\ \E value \in CandidateValues :
          LET r == UV_call(uv, value)
          IN uvret' = Returned("call", r.raised, r.report)
    /\ UNCHANGED <<uv, formVars, regVars>>
    /\ UNCHANGED <<filterVars, pairVars>>

NextUnique == SetContext \/ Call

SpecUnique == InitUnique /\ [][NextUnique]_vars

\* a row of the table that holds the candidate under the configured lookup
\* and is not the instance being updated
Conflicts(value) ==
    {r \in uv.queryset :
        /\ value \notin IllTyped
        /\ Match(uv.lookup, r.vals[uv.field_name], value)
        /\ (uv.instance.none \/ r.pk # uv.instance.pk)}

\* C10: a call of the validator (its context set) raises a ValidationError of
\* code unique naming the field iff some row of the queryset matches the
\* candidate under the lookup and is not the instance being updated; otherwise
\* it raises nothing.
C10_UniqueIffOtherRowMatches ==
    (uvret.op = "call" /\ uv.has_context) =>
        /\ uvret.raised \in {"", "ValidationError"}
        /\ uvret.raised = "ValidationError" <=> Conflicts(uvret.value.value) # {}
        /\ uvret.raised = "ValidationError" =>
              uvret.value.code = "unique" /\ uvret.value.field_name = uv.field_name

\* an update of a row with its own unchanged value passes although the row
\* matches; the same value on a create would be a conflict
C10_Witness ==
    /\ uvret.op = "call" /\ uv.has_context
    /\ ~uv.instance.none /\ uv.instance \in uv.queryset
    /\ Match(uv.lookup, uv.instance.vals[uv.field_name], uvret.value.value)
    /\ uvret.value.value \notin IllTyped
    /\ uvret.raised = ""

\* a create with a value held by a row fails with code unique
C10_CreateFails ==
    /\ uvret.op = "call" /\ uv.has_context /\ uv.instance.none
    /\ \E r \in uv.queryset : r.vals[uv.field_name] = uvret.value.value
    /\ uvret.raised = "ValidationError" /\ uvret.value.code = "unique"

(***************************************************************************)
(* UniqueTogetherValidator (validators.py 84-147) called on its own: uv is *)
(* the validator, queryset its table, uvret the outcome of the last call.  *)
(***************************************************************************)
Row3 == Instance(3, [n \in FieldNames |-> "H"])
TogetherRows == {Row1, Row2, Row3}
TogetherValues == {NoneV, "X", "H", "#"}
\* the dicts a caller passes: any of the names may be absent
ReqParams == UNION {[D -> TogetherValues] : D \in SUBSET FieldNames}

TogetherReport(req_params, out) == [req_params |-> req_params, out |-> out]

InitTogether ==
    /\ \E i \in 1..Len(ValidatorFields) : uv = UTV_init(ValidatorNames[i], ValidatorFields[i])
    /\ queryset \in SUBSET TogetherRows
    /\ uvret = Returned("init", "", UVReport(NoneV, "", NoneV))
    /\ IdleFormObject
    /\ IdleReg
    /\ IdleFilter
    /\ IdlePair

\* validator.set_context(form): the form creates (instance None) or updates a
\* row of the table
TogetherSetContext ==
    /\ \E instance \in {NoInstance} \cup queryset :
          uv' = UTV_set_context(uv, [instance |-> instance])
    /\ uvret' = Returned("set_context", "", UVReport(NoneV, "", NoneV))
    /\ UNCHANGED <<formVars, regVars>>
    /\ UNCHANGED <<filterVars, pairVars>>

\* validator(req_params)
TogetherCall ==
    /\ \E req_params \in ReqParams :
          LET out == UTV_call(uv, req_params, queryset)
          IN uvret' = Returned("call", IF out.raised THEN "ValidationError" ELSE "",
                               TogetherReport(req_params, out))
    /\ UNCHANGED <<uv, formVars, regVars>>
    /\ UNCHANGED <<filterVars, pairVars>>

NextTogether == TogetherSetContext \/ TogetherCall

SpecTogether == InitTogether /\ [][NextTogether]_vars

\* the last call: the dict passed, what came back
Passed == uvret.value.req_params
Out == uvret.value.out
MissingFields == {n \in Range(uv.fields) : n \notin DOMAIN Passed}
IsRequiredError(err) ==
    /\ err.is_dict
    /\ \A i \in 1..Len(err.items) : err.items[i][2] = <<"required">>
ErrKeys(err) == {err.items[i][1] : i \in 1..Len(err.items)}

\* C11: on create a call that lacks constrained fields raises the required
\* error with one entry per missing field and no other entry, before any call
\* on the queryset; a create that lacks none, and every update, raises no
\* required error.
C11_RequiredOnCreate ==
    uvret.op = "call" =>
        /\ (uv.instance.none /\ MissingFields # {}) =>
               /\ Out.raised
               /\ IsRequiredError(Out.err)
               /\ ErrKeys(Out.err) = MissingFields
               /\ Len(Out.err.items) = Cardinality(MissingFields)
               /\ Out.queries = <<>>
        /\ (~uv.instance.none \/ MissingFields = {}) =>
               ~(Out.raised /\ Out.err.is_dict)

\* a create by <<a, b>> that passes a alone: required for b only, no query
C11_Witness ==
    /\ uvret.op = "call" /\ uv.instance.none
    /\ uv.fields = <<"a", "b">>
    /\ DOMAIN Passed = {"a"}
    /\ Out.raised /\ ErrKeys(Out.err) = {"b"} /\ Out.queries = <<>>
    /\ queryset # {}

\* an update that lacks a constrained field raises no required error
C11_UpdateWitness ==
    /\ uvret.op = "call" /\ ~uv.instance.none
    /\ MissingFields # {}
    /\ ~Out.raised

\* the constrained value of field n in the last call: the one passed or, on
\* update when it was not passed, the instance's
ConstrainedValue(n) ==
    IF n \in DOMAIN Passed THEN Passed[n] ELSE uv.instance.vals[n]

AllNonNull == \A n \in Range(uv.fields) : ConstrainedValue(n) # NoneV

\* the rows other than the instance that hold all the constrained values
TogetherConflicts ==
    {r \in queryset :
        /\ uv.instance.none \/ r.pk # uv.instance.pk
        /\ \A n \in Range(uv.fields) : r.vals[n] = ConstrainedValue(n)}

IsUniqueError(out) ==
    /\ out.raised
    /\ ~out.err.is_dict
    /\ out.err.items[1][2] = <<"unique">>
    /\ out.field_names = uv.fields

\* C12: a call that passes the required-fields check raises one error of code
\* unique naming all the constrained fields iff every constrained value is
\* non-null and a row other than the instance holds all of them; with a null
\* constrained value nothing is raised and exists() is not called.
C12_UniqueTogether ==
    (uvret.op = "call" /\ ~(uv.instance.none /\ MissingFields # {})) =>
        /\ Out.raised => IsUniqueError(Out)
        /\ Out.raised <=> (AllNonNull /\ TogetherConflicts # {})
        /\ ~AllNonNull => "exists" \notin Range(Out.queries)

\* an update that does not pass b: b is taken from the instance, and another
\* row holds the same b
C12_Witness ==
    /\ uvret.op = "call" /\ ~uv.instance.none
    /\ uv.fields = <<"b">> /\ "b" \notin DOMAIN Passed
    /\ IsUniqueError(Out)
    /\ \E r \in queryset : r.pk # uv.instance.pk /\ r.vals["b"] = uv.instance.vals["b"]

\* a null constrained value that a row holds too: nothing is raised
C12_NullWitness ==
    /\ uvret.op = "call" /\ uv.instance.none
    /\ uv.fields = <<"b">> /\ "b" \in DOMAIN Passed /\ Passed["b"] = NoneV
    /\ \E r \in queryset : r.vals["b"] = NoneV
    /\ ~Out.raised /\ Out.queries = <<"filter">>

(***************************************************************************)
(* SearchFilter (backends.py 44-103).  A string is the sequence of its     *)
(* characters; a row of the queryset holds a string under each model field *)
(* name; models.OP.LIKE / ILIKE are the SQL pattern matches (% any run of  *)
(* characters, _ any one character), ILIKE ignoring case.                  *)
(***************************************************************************)
RECURSIVE Like(_, _, _)
RECURSIVE split(_, _, _)
RECURSIVE search_loop(_, _, _)

\* str.lower() on one character and on a string
CharLower(c) ==
    CASE c = "A" -> "a" [] c = "B" -> "b" [] c = "N" -> "n" [] c = "T" -> "t"
      [] OTHER -> c
StrLower(str) == [i \in 1..Len(str) |-> CharLower(str[i])]

\* value LIKE pattern (ci: ILIKE)
Like(pattern, value, ci) ==
    IF pattern = <<>>
    THEN value = <<>>
    ELSE IF pattern[1] = "%"
    THEN Like(Tail(pattern), value, ci)
         \/ (value # <<>> /\ Like(pattern, Tail(value), ci))
    ELSE /\ value # <<>>
         /\ \/ pattern[1] = "_"
            \/ pattern[1] = value[1]
            \/ ci /\ CharLower(pattern[1]) = CharLower(value[1])
         /\ Like(Tail(pattern), Tail(value), ci)

\* get_query_model_fields(queryset) for the table that is searched: the
\* names of the model's fields
query_model_fields == {<<"n">>, <<"t">>}

\* lookup_prefixes: the operator and the format of the right-hand side
lookup_prefixes ==
    [c \in {"^", "=", "@", "$"} |->
        CASE c = "^" -> [op |-> "LIKE", fmt |-> "%s%%"]
          [] c = "=" -> [op |-> "EQ", fmt |-> "%s"]
          [] c = "@" -> [op |-> "ILIKE", fmt |-> "%%%s%%"]
          [] c = "$" -> [op |-> "LIKE", fmt |-> "%%%s"]]

\* rhs % search_term
Format(fmt, term) ==
    CASE fmt = "%s%%" -> term \o <<"%">>
      [] fmt = "%s" -> term
      [] fmt = "%%%s%%" -> <<"%">> \o term \o <<"%">>
      [] fmt = "%%%s" -> <<"%">> \o term

\* str.split() after the current word cur, with the words found so far
split(str, cur, words) ==
    IF str = <<>>
    THEN IF cur = <<>> THEN words ELSE Append(words, cur)
    ELSE IF str[1] = " "
    THEN split(Tail(str), <<>>, IF cur = <<>> THEN words ELSE Append(words, cur))
    ELSE split(Tail(str), Append(cur, str[1]), words)

\* SearchFilter.get_search_terms: search_param.replace(',', ' ').split()
get_search_terms(search_param) ==
    split([i \in 1..Len(search_param) |->
              IF search_param[i] = "," THEN " " ELSE search_param[i]], <<>>, <<>>)

\* SearchFilter.construct_search(query_model_fields, field_name)
construct_search(index, field_name) ==
    LET has_prefix == field_name[1] \in DOMAIN lookup_prefixes
        lookup == IF has_prefix THEN lookup_prefixes[field_name[1]]
                  ELSE [op |-> "ILIKE", fmt |-> "%%%s%%"]
        name == IF has_prefix THEN Tail(field_name) ELSE field_name
    IN IF StrLower(name) \notin index
       THEN [raised |-> TRUE, field |-> NoneV, op |-> "", fmt |-> ""]
       ELSE [raised |-> FALSE, field |-> StrLower(name), op |-> lookup.op, fmt |-> lookup.fmt]

\* models.Expression(lhs, op, rhs) evaluated on a row
Expression(row, lhs, op, rhs) ==
    CASE op = "EQ" -> row.vals[lhs] = rhs
      [] op = "LIKE" -> Like(rhs, row.vals[lhs], FALSE)
      [] op = "ILIKE" -> Like(rhs, row.vals[lhs], TRUE)

\* lines 99-101: one filter per search term, the term's expressions or-ed
search_loop(qs, orm_lookups, search_terms) ==
    IF search_terms = <<>>
    THEN qs
    ELSE search_loop({r \in qs : \E i \in 1..Len(orm_lookups) :
                         Expression(r, orm_lookups[i].field, orm_lookups[i].op,
                                    Format(orm_lookups[i].fmt, search_terms[1]))},
                     orm_lookups, Tail(search_terms))

\* SearchFilter.filter_queryset: the exception raised ("" for none), the
\* queryset returned and the number of queryset.filter calls made
search_filter_queryset(search_fields, search_param, qs) ==
    LET search_terms == get_search_terms(search_param)
    IN IF search_fields = <<>> \/ search_terms = <<>>
       THEN [raised |-> "", qs |-> qs, filters |-> 0]
       ELSE LET orm_lookups == [i \in 1..Len(search_fields) |-> construct_search(query_model_fields,
                                                                        search_fields[i])]
            IN IF \E i \in 1..Len(orm_lookups) : orm_lookups[i].raised
               THEN [raised |-> "ImproperlyConfigured", qs |-> qs, filters |-> 0]
               ELSE [raised |-> "", qs |-> search_loop(qs, orm_lookups, search_terms),
                     filters |-> Len(search_terms)]

\* the table that is searched
SearchRow(pk, n, t) == Instance(pk, [f \in query_model_fields |-> IF f = <<"n">> THEN n ELSE t])
SearchRows == { SearchRow(1, <<"a", "b">>, <<"b">>),
                SearchRow(2, <<"b", "a">>, <<"A", "b">>),
                SearchRow(3, <<"b">>, <<"b", "a">>) }
\* the entries a view may list in search_fields: with each prefix, without,
\* in upper case, and naming no field of the model
SearchFieldNames == { <<"^", "n">>, <<"=", "n">>, <<"@", "t">>, <<"$", "t">>,
                      <<"n">>, <<"t">>, <<"N">>, <<"z">>, <<"^", "z">> }
SearchFieldLists ==
    {<<>>} \cup {<<f>> : f \in SearchFieldNames}
           \cup {<<f, g>> : <<f, g>> \in SearchFieldNames \X SearchFieldNames}
\* the values of the request's search argument ("" when it is absent)
SearchParams == { <<>>, <<" ">>, <<",">>, <<"a">>, <<"b">>, <<"A">>, <<"a", "b">>,
                  <<"a", ",", "b">>, <<"b", " ", "a">>, <<",", "a", " ">>, <<"%">> }

SearchResult(out) == [qs |-> out.qs, filters |-> out.filters]

InitSearch ==
    /\ request_handler = NoneV
    /\ queryset \in SUBSET SearchRows
    /\ form = NewForm(TRUE, [n \in FieldNames |-> NoneV], TRUE,
                      [n \in FieldNames |-> NoneV], FALSE,
                      [n \in FieldNames |-> FALSE], NoInstance)
    /\ ret = Returned("init", "", FALSE)
    /\ nadd = 0
    /\ IdleReg
    /\ IdleUV
    /\ IdlePair

\* the request, with its search argument, reaches a view with its
\* search_fields: SearchFilter().filter_queryset(request_handler, queryset)
SearchRequest ==
    /\ ret.op = "init"
    /\ \E search_fields \in SearchFieldLists, search_param \in SearchParams :
          LET out == search_filter_queryset(search_fields, search_param, queryset)
          IN /\ request_handler' = [search_fields |-> search_fields, search |-> search_param]
             /\ ret' = Returned("search", out.raised, SearchResult(out))
    /\ UNCHANGED <<form, queryset, nadd, regVars, uvVars, pairVars>>

NextSearch == SearchRequest

SpecSearch == InitSearch /\ [][NextSearch]_vars

\* the terms: the maximal runs of the search argument free of commas and
\* whitespace
Separators == {",", " "}
SearchTerms ==
    LET p == request_handler.search
    IN {SubSeq(p, i, j) : <<i, j>> \in
           {q \in (1..Len(p)) \X (1..Len(p)) :
               /\ q[1] <= q[2]
               /\ \A k \in q[1]..q[2] : p[k] \notin Separators
               /\ q[1] = 1 \/ p[q[1] - 1] \in Separators
               /\ q[2] = Len(p) \/ p[q[2] + 1] \in Separators}}

HasPrefix(f) == f[1] \in {"^", "=", "@", "$"}
\* the comparison mode the prefix of a search field selects
ModeOf(f) ==
    CASE f[1] = "^" -> "starts-with"
      [] f[1] = "=" -> "exact"
      [] f[1] = "$" -> "ends-with"
      [] OTHER -> "icontains"
FieldOf(f) == StrLower(IF HasPrefix(f) THEN Tail(f) ELSE f)
Resolves(f) == FieldOf(f) \in query_model_fields

StartsWith(v, t) == Len(t) <= Len(v) /\ SubSeq(v, 1, Len(t)) = t
EndsWith(v, t) == Len(t) <= Len(v) /\ SubSeq(v, Len(v) - Len(t) + 1, Len(v)) = t
IContains(v, t) ==
    \E i \in 1..(Len(v) + 1) :
        i + Len(t) - 1 <= Len(v) /\ SubSeq(StrLower(v), i, i + Len(t) - 1) = StrLower(t)
ModeMatch(v, mode, t) ==
    CASE mode = "starts-with" -> StartsWith(v, t)
      [] mode = "exact" -> v = t
      [] mode = "ends-with" -> EndsWith(v, t)
      [] mode = "icontains" -> IContains(v, t)

\* AND over the terms of OR over the search fields
Composed(T) ==
    LET F == Range(request_handler.search_fields)
    IN IF F = {} \/ T = {}
       THEN queryset
       ELSE {r \in queryset :
                \A t \in T : \E f \in F : ModeMatch(r.vals[FieldOf(f)], ModeOf(f), t)}

Searched == ret.op = "search" /\ ret.raised = ""
AllResolve == \A f \in Range(request_handler.search_fields) : Resolves(f)

\* C13: the queryset returned by a search is the input restricted by AND over
\* the terms of OR over the search fields of the match in the field's mode;
\* with no search field or no term it is the input, and no filter was applied.
C13_SearchComposition ==
    (Searched /\ AllResolve) =>
        /\ ret.value.qs = Composed(SearchTerms)
        /\ (request_handler.search_fields = <<>> \/ SearchTerms = {}) =>
               ret.value.filters = 0

\* the same for the search arguments without pattern characters
C13_WithoutPatternCharacters ==
    (Searched /\ AllResolve /\ "%" \notin Range(request_handler.search)) =>
        /\ ret.value.qs = Composed(SearchTerms)
        /\ (request_handler.search_fields = <<>> \/ SearchTerms = {}) =>
               ret.value.filters = 0

\* C14: a search over search_fields with a name that resolves on no model
\* raises the configuration error, whatever the search argument, and applies
\* no filter.
C14_UnresolvableAlwaysRaises ==
    (ret.op = "search" /\ ~AllResolve) =>
        ret.raised = "ImproperlyConfigured" /\ ret.value.filters = 0

\* the same for the requests that carry a search term
C14_RaisesWhenSearching ==
    (ret.op = "search" /\ ~AllResolve /\ SearchTerms # {}) =>
        ret.raised = "ImproperlyConfigured" /\ ret.value.filters = 0

(***************************************************************************)
(* Field resolution (backends.py 28-41, 67-87) on its own.  Here queryset  *)
(* is the query object [model_class, _joins]: the names of the fields the  *)
(* model declares, and for each joined model the names of its fields.      *)
(***************************************************************************)
\* BaseFilterBackend.get_query_model_fields: the keys of the dict, which are
\* f.name of the model's fields and of the fields of every joined model
get_query_model_fields(qs) ==
    qs.model_class \cup UNION {qs._joins[k] : k \in 1..Len(qs._joins)}

\* the names a model may declare its fields under
DeclaredNames == {<<"n">>, <<"t">>, <<"T">>}
\* at most this many joined models
MaxJoins == 1
JoinLists == UNION {[1..k -> (SUBSET DeclaredNames) \ {{}}] : k \in 0..MaxJoins}
\* the entries of search_fields that are resolved
ResolvedNames == SearchFieldNames \cup {<<"T">>, <<"@", "T">>}

InitResolve ==
    /\ \E model_class \in (SUBSET DeclaredNames) \ {{}}, joins \in JoinLists :
          queryset = [model_class |-> model_class, _joins |-> joins]
    /\ request_handler = NoneV
    /\ form = NewForm(TRUE, [n \in FieldNames |-> NoneV], TRUE,
                      [n \in FieldNames |-> NoneV], FALSE,
                      [n \in FieldNames |-> FALSE], NoInstance)
    /\ ret = Returned("init", "", NoneV)
    /\ nadd = 0
    /\ IdleReg
    /\ IdleUV
    /\ IdlePair

\* construct_search(get_query_model_fields(queryset), search_field) for an
\* entry of the view's search_fields
ResolveRequest ==
    /\ ret.op = "init"
    /\ \E search_field \in ResolvedNames :
          LET out == construct_search(get_query_model_fields(queryset), search_field)
          IN /\ request_handler' = [search_fields |-> <<search_field>>]
             /\ ret' = Returned("resolve",
                                IF out.raised THEN "ImproperlyConfigured" ELSE "",
                                out.field)
    /\ UNCHANGED <<form, queryset, nadd, regVars, uvVars, pairVars>>

NextResolve == ResolveRequest

SpecResolve == InitResolve /\ [][NextResolve]_vars

\* the fields of the model and of the joined models, as declared
ModelFields == queryset.model_class \cup UNION {queryset._joins[k] : k \in 1..Len(queryset._joins)}

\* C22: a search field, its prefix stripped, resolves iff the model or a
\* joined model has a field of that name, letter case apart.
C22_CaseInsensitiveResolution ==
    ret.op = "resolve" =>
        ( ret.raised = "" <=>
            \E f \in ModelFields : StrLower(f) = FieldOf(request_handler.search_fields[1]) )

\* the same for the models whose fields are all declared in lower case
C22_LowerCaseDeclared ==
    (ret.op = "resolve" /\ \A f \in ModelFields : StrLower(f) = f) =>
        ( ret.raised = "" <=>
            \E f \in ModelFields : StrLower(f) = FieldOf(request_handler.search_fields[1]) )

\* the model's only field is declared as T and the search field T does not
\* resolve
C22_DeclaredUpperCase ==
    /\ ret.op = "resolve" /\ ret.raised = "ImproperlyConfigured"
    /\ queryset.model_class = {<<"T">>} /\ queryset._joins = <<>>
    /\ request_handler.search_fields = << <<"T">> >>

(***************************************************************************)
(* OrderingFilter (backends.py 106-180).  The view declares ordering_fields *)
(* (the allow-list, None or "__all__" for every model field) and ordering   *)
(* (the default: None, one string, or a tuple of strings); the request      *)
(* carries the list of its ordering arguments.                              *)
(***************************************************************************)
RECURSIVE lstrip(_, _)

\* str.lstrip(c)
lstrip(str, c) == IF str # <<>> /\ str[1] = c THEN lstrip(Tail(str), c) ELSE str

\* the allow-list: None (the class default), "__all__", or the names listed
Unset == [none |-> TRUE, all |-> FALSE, names |-> {}]
AllFields == [none |-> FALSE, all |-> TRUE, names |-> {}]
Listed(names) == [none |-> FALSE, all |-> FALSE, names |-> names]
\* the view's ordering attribute
NoOrdering == [none |-> TRUE, is_str |-> FALSE, items |-> <<>>]
OrderingStr(str) == [none |-> FALSE, is_str |-> TRUE, items |-> <<str>>]
OrderingTuple(items) == [none |-> FALSE, is_str |-> FALSE, items |-> items]

\* OrderingFilter.get_default_ordering: a string becomes a one-element tuple,
\* None stays None (here: no items)
get_default_ordering(handler) == handler.ordering.items

\* OrderingFilter.get_valid_fields
get_valid_fields(handler) ==
    IF handler.ordering_fields.none \/ handler.ordering_fields.all
    THEN query_model_fields
    ELSE handler.ordering_fields.names

\* OrderingFilter.remove_invalid_fields
remove_invalid_fields(handler, ordering_fields) ==
    SelectSeq(ordering_fields,
              LAMBDA field : StrLower(lstrip(field, "-")) \in get_valid_fields(handler))

\* OrderingFilter.get_ordering
get_ordering(handler) ==
    LET ordering == remove_invalid_fields(handler, handler.ordering_args)
    IN IF handler.ordering_args # <<>> /\ ordering # <<>>
       THEN ordering
       ELSE get_default_ordering(handler)

\* lines 160-169 for one item: the field and the direction, or no field
construct_item(item) ==
    LET prefix == IF "-" \in Range(item) THEN "-" ELSE "+"
        field_name == lstrip(item, prefix)
    IN [found |-> field_name \in query_model_fields,
        field |-> field_name,
        dir |-> IF item # <<>> /\ item[1] = "-" THEN "DESC" ELSE "ASC"]

\* OrderingFilter.construct_ordering
construct_ordering(ordering) ==
    LET items == [i \in 1..Len(ordering) |-> construct_item(ordering[i])]
    IN IF \E i \in 1..Len(items) : ~items[i].found
       THEN [raised |-> "ImproperlyConfigured", norm_order_by |-> <<>>]
       ELSE [raised |-> "",
             norm_order_by |-> [i \in 1..Len(items) |-> <<items[i].field, items[i].dir>>]]

\* OrderingFilter.filter_queryset: the exception raised, whether order_by was
\* called, and with which terms
ordering_filter_queryset(handler) ==
    LET ordering == get_ordering(handler)
    IN IF ordering # <<>>
       THEN LET c == construct_ordering(ordering)
            IN [raised |-> c.raised, ordered |-> c.raised = "", order_by |-> c.norm_order_by]
       ELSE [raised |-> "", ordered |-> FALSE, order_by |-> <<>>]

\* what a request may ask for: fields of the model ascending and descending,
\* with two dashes, in upper case, and a name outside every allow-list
OrderingItems == { <<"n">>, <<"-", "n">>, <<"t">>, <<"-", "t">>, <<"-", "-", "n">>,
                   <<"N">>, <<"z">> }
OrderingArgs ==
    {<<>>} \cup {<<f>> : f \in OrderingItems}
           \cup {<<f, g>> : <<f, g>> \in OrderingItems \X OrderingItems}
AllowLists == {Unset, AllFields} \cup {Listed(names) : names \in SUBSET query_model_fields}
DefaultOrderings ==
    { NoOrdering, OrderingStr(<<"n">>), OrderingStr(<<"-", "t">>),
      OrderingTuple(<<<<"-", "t">>, <<"n">>>>) }

OrderingResult(out) == [ordered |-> out.ordered, order_by |-> out.order_by]

InitOrdering ==
    /\ request_handler = NoneV
    /\ IdleForm
    /\ IdleReg
    /\ IdleUV
    /\ IdlePair

\* the request, with its ordering arguments, reaches a view:
\* OrderingFilter().filter_queryset(request_handler, queryset)
OrderingRequest ==
    /\ ret.op = "init"
    /\ \E ordering_args \in OrderingArgs, ordering_fields \in AllowLists,
          ordering \in DefaultOrderings :
          LET handler == [ordering_args |-> ordering_args,
                          ordering_fields |-> ordering_fields,
                          ordering |-> ordering]
              out == ordering_filter_queryset(handler)
          IN /\ request_handler' = handler
             /\ ret' = Returned("ordering", out.raised, OrderingResult(out))
    /\ UNCHANGED <<form, queryset, nadd, regVars, uvVars, pairVars>>

NextOrdering == OrderingRequest

SpecOrdering == InitOrdering /\ [][NextOrdering]_vars

\* the name an ordering term asks for: its leading dashes stripped
AskedName(item) == lstrip(item, "-")
\* the requested terms whose names are in the allow-list, in request order
Surviving ==
    SelectSeq(request_handler.ordering_args,
              LAMBDA item : AskedName(item) \in request_handler.ordering_fields.names)
\* the ordering to apply: the surviving terms or else the declared default
ToApply == IF Surviving # <<>> THEN Surviving ELSE request_handler.ordering.items
Directed(items) ==
    [i \in 1..Len(items) |->
        <<AskedName(items[i]), IF items[i][1] = "-" THEN "DESC" ELSE "ASC">>]

ExplicitAllowList ==
    /\ ret.op = "ordering"
    /\ ~request_handler.ordering_fields.none
    /\ ~request_handler.ordering_fields.all

\* C15: with an explicit allow-list the filter orders by exactly the requested
\* terms whose names are in the list, in request order, descending iff the
\* term starts with a dash; the others are dropped without error; if none is
\* left the declared default ordering is applied, and without a default the
\* queryset is returned as it is.
C15_OrderingAllowList ==
    ExplicitAllowList =>
        /\ ret.raised = ""
        /\ ret.value.ordered = (ToApply # <<>>)
        /\ ret.value.order_by = Directed(ToApply)

\* the same for the requests that spell every name in lower case
C15_LowerCaseRequests ==
    (ExplicitAllowList /\ \A i \in 1..Len(request_handler.ordering_args) :
         StrLower(request_handler.ordering_args[i]) = request_handler.ordering_args[i]) =>
        /\ ret.raised = ""
        /\ ret.value.ordered = (ToApply # <<>>)
        /\ ret.value.order_by = Directed(ToApply)

\* every name the view configures is a field of the model
ConfigResolves ==
    /\ request_handler.ordering_fields.names \subseteq query_model_fields
    /\ \A i \in 1..Len(request_handler.ordering.items) :
           AskedName(request_handler.ordering.items[i]) \in query_model_fields

LowerCaseRequest ==
    \A i \in 1..Len(request_handler.ordering_args) :
        StrLower(request_handler.ordering_args[i]) = request_handler.ordering_args[i]

\* C23: when the allow-list and the default ordering name fields of the model
\* only, no value of the request's ordering arguments makes filter_queryset
\* raise.
C23_BadInputNeverRaises ==
    (ret.op = "ordering" /\ ConfigResolves) => ret.raised = ""

\* the same for the requests that spell every name in lower case
C23_LowerCaseNeverRaises ==
    (ret.op = "ordering" /\ ConfigResolves /\ LowerCaseRequest) => ret.raised = ""

\* the view allows n; the request asks for N and the filter raises
C23_UpperCaseRaises ==
    /\ ret.op = "ordering" /\ ret.raised = "ImproperlyConfigured"
    /\ request_handler.ordering_fields = Listed({<<"n">>})
    /\ request_handler.ordering_args = << <<"N">> >>

\* the requested terms whose names are fields of the model
InIndex ==
    SelectSeq(request_handler.ordering_args,
              LAMBDA item : AskedName(item) \in query_model_fields)
AllInIndex == InIndex = request_handler.ordering_args
\* the ordering to apply under "__all__": the terms in the index or else the
\* declared default
ToApplyOfIndex == IF InIndex # <<>> THEN InIndex ELSE request_handler.ordering.items

\* C24: without an allow-list no requested term is removed: a request is
\* ordered by all its terms, and raises the configuration error when one of
\* them names no field of the model; with "__all__" only the terms that name
\* fields of the model are applied.
C24_UnsetIsUnrestricted ==
    (ret.op = "ordering" /\ request_handler.ordering_args # <<>>) =>
        /\ request_handler.ordering_fields.none =>
               IF AllInIndex
               THEN /\ ret.raised = ""
                    /\ ret.value.order_by = Directed(request_handler.ordering_args)
               ELSE ret.raised = "ImproperlyConfigured"
        /\ request_handler.ordering_fields.all =>
               /\ ret.raised = ""
               /\ ret.value.order_by = Directed(ToApplyOfIndex)

\* what the filter does without an allow-list and with "__all__" alike, for
\* the requests spelled in lower case: the terms that name no field of the
\* model are dropped
C24_UnsetAsAllSentinel ==
    ( /\ ret.op = "ordering" /\ LowerCaseRequest
      /\ request_handler.ordering_fields.none \/ request_handler.ordering_fields.all ) =>
        /\ ret.raised = ""
        /\ ret.value.order_by = Directed(ToApplyOfIndex)

\* no allow-list, a request for z alone: nothing raised, the default applied
C24_UnsetDropsUnknown ==
    /\ ret.op = "ordering" /\ ret.raised = ""
    /\ request_handler.ordering_fields = Unset
    /\ request_handler.ordering_args = << <<"z">> >>
    /\ request_handler.ordering = OrderingStr(<<"n">>)
    /\ ret.value.order_by = << <<<<"n">>, "ASC">> >>

(***************************************************************************)
(* UniqueValidator on a queryset whose calls may fail for the data at hand *)
(***************************************************************************)
QuerysetCalls == {"filter", "exclude", "exists"}

InitFailing ==
    /\ \E qs \in UVTables, lookup \in Lookups, failing \in SUBSET QuerysetCalls :
          uv = [UV_init(qs, lookup) EXCEPT !.failing = failing]
    /\ uvret = Returned("init", "", UVReport(NoneV, "", NoneV))
    /\ IdleForm
    /\ IdleReg
    /\ IdleFilter
    /\ IdlePair

SpecFailing == InitFailing /\ [][NextUnique]_vars

\* the calls __call__ makes on the queryset: the exclusion only on update
CallsMade == IF uv.instance.none THEN {"filter", "exists"} ELSE QuerysetCalls

\* C16: when a call that the validator makes on the queryset fails for a data
\* cause, the validator raises nothing: the failure does not come out of it and
\* no uniqueness violation is reported.
C16_DataFailureAbsorbed ==
    (uvret.op = "call" /\ uv.has_context /\ uv.failing \cap CallsMade # {}) =>
        uvret.raised = ""

\* the same for the failures of filter and exists alone
C16_FilterAndExistsAbsorbed ==
    ( /\ uvret.op = "call" /\ uv.has_context
      /\ uv.failing \cap CallsMade # {}
      /\ "exclude" \notin uv.failing \cap CallsMade ) =>
        uvret.raised = ""

(***************************************************************************)
(* Two forms of the type, cleaned side by side.  A form of the pair is     *)
(*   [form, field_ids, cache, pc, k, used, overlapped]                     *)
(* form: the BaseForm object; field_ids: the Field objects of its _fields, *)
(* as ids into heap, in the order of base_fields (<<>> while _fields is    *)
(* None); cache: the keys of _bound_fields_cache; pc: where its clean      *)
(* cycle stands ("new", "set_context", "call", "done"); k: the validator   *)
(* the loop of _clean_validators is at; used: for each validator called,   *)
(* the instance its call worked with; overlapped: whether the other form   *)
(* ran set_context between this form's set_context and its call.  The      *)
(* validator objects are those of Meta.validators: the property validators *)
(* (forms.py 212-220) copies the list, not the objects, so both forms call *)
(* the objects of meta_validator.  A Field object is                       *)
(*   [name, field_name, parent]                                            *)
(* with field_name and parent set by bind (parent is the form's index, 0   *)
(* when not bound).  The objects of the type's base_fields are the first   *)
(* ones of heap.                                                           *)
(***************************************************************************)
FieldObject(name) == [name |-> name, field_name |-> NoneV, parent |-> 0]

\* the ids of the objects of base_fields, in order
base_field_ids == [k \in 1..Len(base_fields) |-> k]

\* a copy that hands back the same objects
deepcopy_alias(h, ids) == [heap |-> h, ids |-> ids]

\* copy.deepcopy of an ordered dict of Field objects: new objects, equal to
\* the old ones
deepcopy(h, ids) ==
    [heap |-> h \o [k \in 1..Len(ids) |-> h[ids[k]]],
     ids |-> [k \in 1..Len(ids) |-> Len(h) + k]]

\* Field.bind(field_name, parent)
bind(obj, field_name, parent) ==
    [obj EXCEPT !.field_name = field_name, !.parent = parent]

\* the property BaseForm.fields of form i of the pair
pair_fields_get(h, p, i) ==
    IF ~p.form._fields.none
    THEN [heap |-> h, p |-> p]
    ELSE LET c == deepcopy(h, base_field_ids)
             bound == [x \in 1..Len(c.heap) |->
                          IF \E k \in 1..Len(c.ids) : c.ids[k] = x
                          THEN bind(c.heap[x],
                                    base_fields[CHOOSE k \in 1..Len(c.ids) : c.ids[k] = x],
                                    i)
                          ELSE c.heap[x]]
         IN [heap |-> bound,
             p |-> [p EXCEPT !.field_ids = c.ids, !.form = fields_get(@)]]

NewPairForm(data, instance) ==
    [form |-> NewForm(FALSE, data, TRUE, [n \in FieldNames |-> NoneV], FALSE,
                      [n \in FieldNames |-> FALSE], instance),
     field_ids |-> <<>>,
     cache |-> {},
     pc |-> "new",
     k |-> 1,
     used |-> <<>>,
     overlapped |-> FALSE]

\* the request data of the forms of the pair, and the rows they edit
PairData == {[n \in FieldNames |-> IF n = "a" THEN v ELSE "x"] : v \in RawValues}
PairInstances == {NoInstance, Row1, Row2}
PairForms == {1, 2}
Other(i) == 3 - i
\* the hooks of the type succeed and clean() returns cleaned_data
PairChoices == [hook |-> "ok", clean |-> "default"]
\* the names the caller looks up with form[name]
PairNames == {"a", UnknownName}
\* what the caller passes to add_error
PairErrorFields == {NoneV, "a", UnknownName}

InitPair ==
    /\ \E d1 \in PairData, d2 \in PairData, i1 \in PairInstances, i2 \in PairInstances :
          instances = <<NewPairForm(d1, i1), NewPairForm(d2, i2)>>
    /\ heap = [k \in 1..Len(base_fields) |-> FieldObject(base_fields[k])]
    /\ meta_validator = [k \in 1..Len(ValidatorFields) |->
                            UTV_init(ValidatorNames[k], ValidatorFields[k])]
    /\ queryset = {Row1, Row2}
    /\ form = NewForm(TRUE, [n \in FieldNames |-> NoneV], TRUE,
                      [n \in FieldNames |-> NoneV], FALSE,
                      [n \in FieldNames |-> FALSE], NoInstance)
    /\ ret = Returned("init", "", 0)
    /\ nadd = 0
    /\ IdleReg
    /\ IdleUV
    /\ IdleFilter

\* form i: a read of form.fields
PairFields(i) ==
    /\ instances[i].form._fields.none
    /\ LET r == pair_fields_get(heap, instances[i], i)
       IN /\ heap' = r.heap
          /\ instances' = [instances EXCEPT ![i] = r.p]
    /\ ret' = Returned("fields", "", i)
    /\ UNCHANGED <<form, queryset, nadd, meta_validator, regVars, uvVars, filterVars>>

\* form i: form[name], the bound field of a name
PairGetItem(i) ==
    \E name \in PairNames :
       /\ name \notin instances[i].cache
       /\ LET r == pair_fields_get(heap, instances[i], i)
          IN /\ heap' = r.heap
             /\ IF name \in Range(r.p.form._fields.keys)
                THEN /\ instances' = [instances EXCEPT ![i] = [r.p EXCEPT !.cache = @ \cup {name}]]
                     /\ ret' = Returned("getitem", "", i)
                ELSE /\ instances' = [instances EXCEPT ![i] = r.p]
                     /\ ret' = Returned("getitem", "KeyError", i)
       /\ UNCHANGED <<form, queryset, nadd, meta_validator, regVars, uvVars, filterVars>>

\* form i: full_clean up to the end of _clean_form (lines 158-169)
PairCleanFields(i) ==
    /\ instances[i].pc = "new"
    /\ LET r == pair_fields_get(heap, instances[i], i)
           s2 == [r.p.form EXCEPT !._errors = SomeMap(EmptyMap), !.calls = @ + 1,
                                  !._cleaned_data = SomeMap(EmptyMap)]
           r1 == clean_fields(s2, PairChoices)
           r2 == IF r1.raised # "" THEN r1 ELSE clean_form(r1.self, PairChoices)
           r3 == full_clean_except(r2)
       IN /\ heap' = r.heap
          /\ instances' = [instances EXCEPT ![i] =
                 [r.p EXCEPT !.form = r3.self,
                             !.pc = IF r2.raised # "" THEN "done" ELSE "set_context"]]
    /\ ret' = Returned("clean_fields", "", i)
    /\ UNCHANGED <<form, queryset, nadd, meta_validator, regVars, uvVars, filterVars>>

\* form i: validator.set_context(self) of _clean_validators (line 225)
PairSetContext(i) ==
    /\ instances[i].pc = "set_context"
    /\ meta_validator' = [meta_validator EXCEPT ![instances[i].k] =
                              UTV_set_context(@, instances[i].form)]
    /\ instances' = [instances EXCEPT
           ![i].pc = "call",
           ![Other(i)].overlapped = @ \/ ( /\ instances[Other(i)].pc = "call"
                                           /\ instances[Other(i)].k = instances[i].k )]
    /\ ret' = Returned("set_context", "", i)
    /\ UNCHANGED <<form, queryset, nadd, heap, regVars, uvVars, filterVars>>

\* form i: validator(self.cleaned_data) of _clean_validators (line 227), and
\* the except clause of full_clean when it raises
PairCall(i) ==
    /\ instances[i].pc = "call"
    /\ LET p == instances[i]
           v == meta_validator[p.k]
           out == UTV_call(v, p.form._cleaned_data.m, queryset)
           s1 == [p.form EXCEPT !._cleaned_data.m = out.req_params]
           r == IF out.raised
                THEN full_clean_except(Raise(s1, "ValidationError", out.err))
                ELSE Ok(s1)
       IN instances' = [instances EXCEPT ![i] =
              [p EXCEPT !.form = r.self,
                        !.used = Append(@, v.instance),
                        !.k = IF out.raised THEN @ ELSE @ + 1,
                        !.pc = IF out.raised \/ p.k = Len(meta_validator)
                               THEN "done" ELSE "set_context"]]
    /\ ret' = Returned("call", "", i)
    /\ UNCHANGED <<form, queryset, nadd, heap, meta_validator, regVars, uvVars, filterVars>>

\* form i, once cleaned: form.add_error(field, error) by the caller
PairAddError(i) ==
    /\ instances[i].pc = "done"
    /\ nadd < MaxAddError
    /\ \E field \in PairErrorFields :
          LET r == add_error(instances[i].form, field, VEList(<<"manual">>))
          IN /\ instances' = [instances EXCEPT ![i].form = r.self]
             /\ ret' = Returned("add_error", r.raised, i)
    /\ nadd' = nadd + 1
    /\ UNCHANGED <<form, queryset, heap, meta_validator, regVars, uvVars, filterVars>>

NextPair ==
    \E i \in PairForms :
        \/ PairFields(i)
        \/ PairGetItem(i)
        \/ PairCleanFields(i)
        \/ PairSetContext(i)
        \/ PairCall(i)
        \/ PairAddError(i)

SpecPair == InitPair /\ [][NextPair]_vars

\* C17: every validator call of a form works with the instance of that form,
\* whatever the other form does between the form's set_context and its call.
C17_CallUsesOwnInstance ==
    \A i \in PairForms :
        \A j \in 1..Len(instances[i].used) :
            instances[i].used[j] = instances[i].form.instance

\* the same for the forms whose set_context and call were not separated by a
\* set_context of the other form on the same validator
C17_OwnInstanceUnlessOverlapped ==
    \A i \in PairForms :
        ~instances[i].overlapped =>
            \A j \in 1..Len(instances[i].used) :
                instances[i].used[j] = instances[i].form.instance

\* what form i owns: its errors, its cleaned_data, its Field objects and its
\* bound fields
Owned(i) ==
    [errors |-> instances[i].form._errors,
     cleaned_data |-> instances[i].form._cleaned_data,
     field_ids |-> instances[i].field_ids,
     fields |-> [k \in 1..Len(instances[i].field_ids) |-> heap[instances[i].field_ids[k]]],
     cache |-> instances[i].cache]

\* the Field objects of the type's base_fields
TypeFields == [k \in 1..Len(base_fields) |-> heap[base_field_ids[k]]]

\* the Field objects of a form are its own: none is an object of the type or
\* of the other form, and each is bound to the form under its name
OwnFields ==
    \A i \in PairForms :
        LET ids == Range(instances[i].field_ids)
        IN /\ ids \cap Range(base_field_ids) = {}
           /\ ids \cap Range(instances[Other(i)].field_ids) = {}
           /\ \A k \in 1..Len(instances[i].field_ids) :
                  /\ heap[instances[i].field_ids[k]].parent = i
                  /\ heap[instances[i].field_ids[k]].field_name = base_fields[k]

\* C18: a form's fields are its own copies, and no operation on one form
\* (reading fields, form[name], cleaning, a validator step, add_error) changes
\* the type's Field objects or the fields, errors or cleaned_data of the other
\* form.
C18_PerInstanceOwnership ==
    [][ /\ \A i \in PairForms : i # ret'.value => Owned(i)' = Owned(i)
        /\ TypeFields' = TypeFields
        /\ OwnFields'
      ]_vars

\* C18 witness: both forms have bound their fields; form 1 holds the required
\* error of a, form 2 holds a clean value of a and has just been given an
\* error by its caller; the type's objects are not bound.
C18_Witness ==
    /\ ret.op = "add_error" /\ ret.raised = "" /\ ret.value = 2
    /\ \A i \in PairForms : Len(instances[i].field_ids) = Len(base_fields)
    /\ "a" \in DOMAIN instances[1].form._errors.m
    /\ instances[1].form._errors.m["a"] = <<"required">>
    /\ "a" \notin DOMAIN instances[1].form._cleaned_data.m
    /\ "a" \in DOMAIN instances[2].form._cleaned_data.m
    /\ NON_FIELD_ERRORS \in DOMAIN instances[2].form._errors.m
    /\ \A k \in 1..Len(base_fields) : TypeFields[k].parent = 0 /\ TypeFields[k].field_name = NoneV
    /\ "a" \in instances[1].cache

====
